---- MODULE Spec2Model ----
(***************************************************************************)
(* Model of the read-through cache dictionary of                          *)
(* src/Dictionaries/CacheDictionary.cpp: the query pipeline               *)
(* (getColumnsImpl, hasKeys, aggregateColumns), the worker side           *)
(* (update) and the backoff state, over a slot storage and an update      *)
(* queue whose code lives in other files of the repository                *)
(* (CacheDictionaryStorage.h, CacheDictionaryUpdateQueue.cpp) and is      *)
(* modelled from their documented contract.                               *)
(*                                                                         *)
(* One attribute is modelled; a column is a sequence of values.  Row      *)
(* numbers kept in the index maps are 0-based as in the code, so row r     *)
(* of a column c is c[r + 1].                                              *)
(***************************************************************************)
EXTENDS Integers, Sequences, FiniteSets, TLC

\* ------------------------------------------------------------------ bounds
MaxKey == 3
MaxLen == 2
MaxTime == 3
NumQueries == 2
MaxUnits == 2
LifetimeMin == 1
LifetimeMax == 1

MaxCells == 2
MaxBackoffTime == 6
\* the depth limit of the hierarchy searches, scaled down
DBMS_HIERARCHICAL_DICTIONARY_MAX_DEPTH == 4

\* configuration of the instance under study
max_update_queue_size == 1
max_threads_for_updates == 2

Keys == 1..MaxKey
\* the external source holds every key but the largest one
SourceKeys == Keys \ {MaxKey}
Queries == 1..NumQueries
Workers == 1..max_threads_for_updates
UnitIds == 1..MaxUnits

\* ---------------------------------------------------------------------- state
VARIABLES
    key_columns,                \* the key list the clients of this run ask for
    now,                        \* wall clock, in seconds; 0 is the epoch
    storage,                    \* slot table: key -> slot
    allow_read_expired_keys,    \* configuration
    dict_lifetime,              \* configuration: [min_sec, max_sec]
    size_in_cells,              \* configuration: capacity of the storage
    returnsInKeyOrder,          \* property of the storage in use
    rw_lock,                    \* 0, or the worker holding it in write mode
    queue,                      \* update queue: unit ids, oldest first
    finished,                   \* update queue: "no", "stopping", "stopped"
    units,                      \* update units alive
    workers,                    \* update threads
    error_count,
    last_exception,
    backoff_end_time,
    queries                     \* client threads

\* strict_max_lifetime_seconds defaults to the lifetime's max_sec
strict_max_lifetime_seconds == dict_lifetime.max_sec

\* ------------------------------------------------------------- small helpers
Min(a, b) == IF a < b THEN a ELSE b

Range(s) == {s[i] : i \in DOMAIN s}

Has(m, k) == k \in DOMAIN m

EmptyMap == [k \in {} |-> 0]

RECURSIVE Pow2(_)
Pow2(n) == IF n <= 0 THEN 1 ELSE 2 * Pow2(n - 1)

\* the keys of a set as a sequence in ascending order
RECURSIVE SortedSeq(_)
SortedSeq(S) ==
    IF S = {} THEN << >>
    ELSE LET m == CHOOSE x \in S : \A y \in S : x <= y
         IN  <<m>> \o SortedSeq(S \ {m})

\* position (1-based) of the first occurrence of x in s, 0 if none
RECURSIVE PosFrom(_, _, _)
PosFrom(s, x, i) ==
    IF i > Len(s) THEN 0
    ELSE IF s[i] = x THEN i ELSE PosFrom(s, x, i + 1)

Pos(s, x) == PosFrom(s, x, 1)

\* key lists a caller may pass: the callers of the cache normalise their
\* key lists, so a list holds no key twice.  The keys the source holds are
\* alike, so of the lists that differ only in which of them they name, the
\* one naming the smallest keys stands for all.
KeyLists ==
    {s \in UNION {[1..n -> Keys] : n \in 0..MaxLen} :
        /\ \A i, j \in DOMAIN s : i # j => s[i] # s[j]
        /\ \A k \in Range(s) \cap SourceKeys : \A j \in 1..(k - 1) : j \in Range(s)}

\* ------------------------------------------------------------ external source
\* value the source holds for key k at time t: the source's data changes
\* with every second, so a refreshed value differs from an expired one
SourceValue(k, t) == 10 * k + t

\* caller-supplied default for row i (0-based key_index) of a query
DefaultValue(i) == 0 - (i + 1)

\* rows <<key, value>> the source returns for the requested keys
RECURSIVE SourceRows(_, _)
SourceRows(keys, t) ==
    IF keys = << >> THEN << >>
    ELSE (IF Head(keys) \in SourceKeys
             THEN << <<Head(keys), SourceValue(Head(keys), t)>> >>
             ELSE << >>)
         \o SourceRows(Tail(keys), t)

\* the streams of blocks the source may answer with: one block holding all
\* rows, or one block per row; no block when there is no row
Streams(keys, t) ==
    LET rows == SourceRows(keys, t)
    IN  IF rows = << >> THEN {<< >>}
        ELSE {<<rows>>, [i \in 1..Len(rows) |-> <<rows[i]>>]}

\* ---------------------------------------------------------------- slot storage
NoSlot == [present |-> FALSE, value |-> 0, deadline |-> 0]

\* classification of a slot at time t
Classify(slot, t) ==
    IF ~slot.present THEN "absent"
    ELSE IF t < slot.deadline THEN "fresh"
    ELSE IF t < slot.deadline + strict_max_lifetime_seconds THEN "expired"
    ELSE "absent"

getSize(st) == Cardinality({k \in Keys : st[k].present})

\* bulk classification of keys: the rows of found-or-expired slots, the two
\* index maps key -> row, and the keys to refresh with their positions
fetchColumnsForKeys(keys, fill, st, t, inOrder) ==
    LET hit == {k \in Range(keys) : Classify(st[k], t) # "absent"}
        inputOrder == SelectSeq(keys, LAMBDA k : k \in hit)
        rowKeys == IF inOrder THEN inputOrder ELSE SortedSeq(hit)
        miss == {i \in DOMAIN keys : Classify(st[keys[i]], t) # "fresh"}
        missIdx == SortedSeq(miss)
    IN  [fetched_columns |->
            IF fill THEN [r \in 1..Len(rowKeys) |-> st[rowKeys[r]].value]
            ELSE << >>,
         found_keys_to_fetched_columns_index |->
            [k \in {x \in hit : Classify(st[x], t) = "fresh"} |->
                Pos(rowKeys, k) - 1],
         expired_keys_to_fetched_columns_index |->
            [k \in {x \in hit : Classify(st[x], t) = "expired"} |->
                Pos(rowKeys, k) - 1],
         not_found_or_expired_keys |->
            [j \in 1..Len(missIdx) |-> keys[missIdx[j]]],
         not_found_or_expired_keys_indexes |->
            [j \in 1..Len(missIdx) |-> missIdx[j] - 1]]

\* a bulk insert that writes every row's slot and displaces nothing
insertColumnsForKeys_noEviction(st, rows, t) ==
    {[x \in Keys |->
        IF \E i \in DOMAIN rows : rows[i][1] = x
        THEN [present |-> TRUE,
              value |-> rows[CHOOSE i \in DOMAIN rows : rows[i][1] = x][2],
              deadline |-> t + l]
        ELSE st[x]]
     : l \in dict_lifetime.min_sec..dict_lifetime.max_sec}

\* the storages a bulk insert of rows at time t may leave: every row's key
\* gets a slot with a deadline drawn from the lifetime range; when the table
\* is full a slot of another key is displaced
RECURSIVE insertColumnsForKeys(_, _, _)
insertColumnsForKeys(st, rows, t) ==
    IF rows = << >> THEN {st}
    ELSE LET k == Head(rows)[1]
             v == Head(rows)[2]
             victims == IF st[k].present \/ getSize(st) < size_in_cells
                        THEN {0}
                        ELSE {x \in Keys : st[x].present}
         IN  UNION {
               UNION {
                 insertColumnsForKeys(
                    [x \in Keys |->
                        IF x = k THEN [present |-> TRUE, value |-> v,
                                       deadline |-> t + l]
                        ELSE IF x = victim THEN NoSlot
                        ELSE st[x]],
                    Tail(rows), t)
                 : l \in dict_lifetime.min_sec..dict_lifetime.max_sec}
               : victim \in victims}

\* --------------------------------------------------------------- query pipeline
\* not_found_keys_size of getColumnsImpl and hasKeys
notFoundKeysSize(keys, res) ==
    Len(keys) - (Cardinality(DOMAIN res.expired_keys_to_fetched_columns_index)
                 + Cardinality(DOMAIN res.found_keys_to_fetched_columns_index))

expiredKeysSize(res) ==
    Cardinality(DOMAIN res.expired_keys_to_fetched_columns_index)

\* a decision without the early return for keys that were all found
getColumnsBranch_noAllHit(not_found_keys_size, expired_keys_size, allow) ==
    IF not_found_keys_size = 0 /\ expired_keys_size > 0 /\ allow THEN "async"
    ELSE "sync"

\* a decision without the asynchronous branch
getColumnsBranch_noAsync(not_found_keys_size, expired_keys_size, allow) ==
    IF not_found_keys_size = 0 /\ expired_keys_size = 0 THEN "all_hit"
    ELSE "sync"

\* the branch getColumnsImpl takes
getColumnsBranch(not_found_keys_size, expired_keys_size, allow) ==
    IF not_found_keys_size = 0 /\ expired_keys_size = 0 THEN "all_hit"
    ELSE IF not_found_keys_size = 0 /\ expired_keys_size > 0 /\ allow
         THEN "async"
    ELSE "sync"

\* the branch hasKeys takes; "none" is the fall-through that neither
\* returns early nor starts an update
hasKeysBranch(not_found_keys_size, expired_keys_size, allow) ==
    IF not_found_keys_size = 0 /\ expired_keys_size = 0 THEN "all_hit"
    ELSE IF not_found_keys_size = 0 /\ expired_keys_size > 0 /\ allow
         THEN "async"
    ELSE IF not_found_keys_size > 0 THEN "sync"
    ELSE "none"

\* reorder the rows fetched from storage to the order of the requested keys
RECURSIVE aggregateColumnsInOrderOfKeys(_, _, _, _, _)
aggregateColumnsInOrderOfKeys(keys, fill, fetched_columns, found, expired) ==
    IF ~fill \/ keys = << >> THEN << >>
    ELSE LET key == Head(keys)
             rest == aggregateColumnsInOrderOfKeys(Tail(keys), fill,
                        fetched_columns, found, expired)
         IN  IF Has(expired, key)
                THEN <<fetched_columns[expired[key] + 1]>> \o rest
             ELSE IF Has(found, key)
                THEN <<fetched_columns[found[key] + 1]>> \o rest
             ELSE rest

\* the loop of aggregateColumns over the keys, from key_index on: the value
\* found in storage, else the value fetched during the update, else the
\* default of the row
RECURSIVE aggregateFrom(_, _, _, _, _, _)
aggregateFrom(keys, key_index, from_storage, found, during_update, updated) ==
    IF key_index >= Len(keys) THEN << >>
    ELSE LET key == keys[key_index + 1]
             rest == aggregateFrom(keys, key_index + 1, from_storage, found,
                                   during_update, updated)
         IN  IF Has(found, key)
                THEN <<from_storage[found[key] + 1]>> \o rest
             ELSE IF Has(updated, key)
                THEN <<during_update[updated[key] + 1]>> \o rest
             ELSE <<DefaultValue(key_index)>> \o rest

\* a merge that reads the update's index map after it was emptied
aggregateColumns_lostUpdate(keys, fill, from_storage, found, during_update, updated) ==
    IF ~fill THEN << >>
    ELSE aggregateFrom(keys, 0, from_storage, found, during_update, EmptyMap)

aggregateColumns(keys, fill, from_storage, found, during_update, updated) ==
    IF ~fill THEN << >>
    ELSE aggregateFrom(keys, 0, from_storage, found, during_update, updated)

\* the result loop of hasKeys
hasKeysResult(keys, found_index, update_index) ==
    [i \in 1..Len(keys) |->
        Has(found_index, keys[i]) \/ Has(update_index, keys[i])]

\* a return from storage that skips the reordering pass
columnsFromStorage_unordered(keys, res, inOrder) == res.fetched_columns

\* what getColumnsImpl returns when it completes from storage alone
columnsFromStorage(keys, res, inOrder) ==
    IF inOrder THEN res.fetched_columns
    ELSE aggregateColumnsInOrderOfKeys(keys, TRUE, res.fetched_columns,
            res.found_keys_to_fetched_columns_index,
            res.expired_keys_to_fetched_columns_index)

\* ------------------------------------------------------------------- backoff
BackoffClamp == 4
BackoffJitter == 1

\* a duration whose jitter is as wide as the window itself
calculateDurationWithBackoff_wideJitter(count) ==
    {Min(1 + jitter, BackoffClamp) : jitter \in 0..Pow2(count - 1)}

\* seconds of backoff after error_count consecutive failures: the window
\* doubles with every failure up to the clamp, plus a jitter of the random
\* engine; the set of the durations the call may return
calculateDurationWithBackoff(count) ==
    {Min(Pow2(count - 1) + jitter, BackoffClamp) : jitter \in 0..BackoffJitter}

\* ---------------------------------------------------------------------- state
vars == <<key_columns, now, storage, allow_read_expired_keys, dict_lifetime,
          size_in_cells, returnsInKeyOrder, rw_lock, queue, finished, units,
          workers, error_count, last_exception, backoff_end_time, queries>>

config == <<key_columns, allow_read_expired_keys, dict_lifetime, size_in_cells,
            returnsInKeyOrder>>
backoff == <<error_count, last_exception, backoff_end_time>>

EmptyResult == fetchColumnsForKeys(<< >>, FALSE, [k \in Keys |-> NoSlot], 0, TRUE)

NoUnit ==
    [state |-> "none", keys |-> << >>, fill |-> FALSE, fetched |-> << >>,
     index |-> EmptyMap, found_num |-> 0, owner |-> 0, err |-> "none",
     got |-> EmptyMap, runs |-> 0, changed |-> FALSE, asked |-> FALSE]

IdleQuery ==
    [pc |-> "idle", op |-> "none", keys |-> << >>, res |-> EmptyResult,
     seen |-> << >>, branch |-> "none", unit |-> 0, out |-> << >>,
     err |-> "none"]

IdleWorker == [pc |-> "idle", unit |-> 0, stream |-> << >>, wnow |-> 0]

Done(u) == units[u].state \in {"done_ok", "done_err"}

\* the lifetime of the instance under study
Lifetime == [min_sec |-> LifetimeMin, max_sec |-> LifetimeMax]

\* the state after construction, for clients that ask for one of the lists
\* and a dictionary configured with one of the lifetimes and capacities;
\* the order of the storage's rows is a choice only for two keys or more
InitOf(lists, lifetimes, sizes) ==
    /\ key_columns \in lists
    /\ dict_lifetime \in lifetimes
    /\ size_in_cells \in sizes
    /\ finished = "no"
    /\ now = 1
    /\ storage = [k \in Keys |-> NoSlot]
    /\ allow_read_expired_keys \in BOOLEAN
    /\ returnsInKeyOrder \in BOOLEAN
    /\ Len(key_columns) < 2 => returnsInKeyOrder
    /\ rw_lock = 0
    /\ queue = << >>
    /\ units = [u \in UnitIds |-> NoUnit]
    /\ workers = [w \in Workers |-> IdleWorker]
    /\ error_count = 0
    /\ last_exception = "none"
    /\ backoff_end_time = 0
    /\ queries = [q \in Queries |-> IdleQuery]

\* The hand-over of a result to the caller is local to the query thread: it
\* is taken as the step that follows the one that computed the result, so
\* every other step waits for a result that is being handed over.
Quiet == \A q \in Queries : queries[q].pc \notin {"returned", "failed"}

\* ---------------------------------------------------------------- environment
Tick(limit) ==
    /\ Quiet
    /\ now < limit
    /\ now' = now + 1
    /\ UNCHANGED <<finished, storage, config, rw_lock, queue, units, workers,
                   backoff, queries>>

\* -------------------------------------------------------------------- queries
\* the units after query q drops the reference it holds from its last call
dropReference(q) ==
    LET u == queries[q].unit
    IN  IF u = 0 THEN units
        ELSE IF Done(u) THEN [units EXCEPT ![u] = NoUnit]
        ELSE [units EXCEPT ![u].owner = 0]

\* what a call of operation op over keys holds after its lookup in the
\* storage: the result of the fetch, its counts and the branch they select
afterLookupOf(keys, op) ==
    LET res == fetchColumnsForKeys(keys, op = "getColumns", storage, now,
                                   returnsInKeyOrder)
        nf == notFoundKeysSize(keys, res)
        ex == expiredKeysSize(res)
    IN  [pc |-> "fetched", op |-> op, keys |-> keys, res |-> res,
         seen |-> [i \in 1..Len(keys) |->
                      [class |-> Classify(storage[keys[i]], now),
                       value |-> storage[keys[i]].value]],
         branch |-> IF op = "getColumns"
                    THEN getColumnsBranch(nf, ex, allow_read_expired_keys)
                    ELSE hasKeysBranch(nf, ex, allow_read_expired_keys),
         unit |-> 0, out |-> << >>, err |-> "none"]

\* the same for the key list of the clients
afterLookup(op) == afterLookupOf(key_columns, op)

\* getColumnsImpl / hasKeys up to the end of the storage lookup, which runs
\* under the write lock
Lookup(q, op) ==
    /\ Quiet
    /\ queries[q].pc = "idle"
    /\ rw_lock = 0
    /\ queries' = [queries EXCEPT ![q] = afterLookup(op)]
    /\ UNCHANGED <<finished, now, storage, config, rw_lock, queue, units, workers,
                   backoff>>

\* a client enters getColumns or hasKeys; the lookup is still to come
Call(q, op) ==
    /\ Quiet
    /\ queries[q].pc = "idle"
    /\ queries' = [queries EXCEPT ![q].pc = "called", ![q].op = op]
    /\ UNCHANGED <<finished, now, storage, config, rw_lock, queue, units, workers,
                   backoff>>

\* the call gets the write lock, which has no timeout, and looks the keys up
LockedLookup(q) ==
    /\ Quiet
    /\ queries[q].pc = "called"
    /\ rw_lock = 0
    /\ queries' = [queries EXCEPT ![q] = afterLookup(queries[q].op)]
    /\ UNCHANGED <<finished, now, storage, config, rw_lock, queue, units, workers,
                   backoff>>

\* the call gets the write lock for its lookup; the lock is held by client
\* thread q when rw_lock is -q
LookupLock(q) ==
    /\ Quiet
    /\ queries[q].pc = "called"
    /\ rw_lock = 0
    /\ rw_lock' = 0 - q
    /\ queries' = [queries EXCEPT ![q].pc = "locked"]
    /\ UNCHANGED <<finished, now, storage, config, queue, units, workers,
                   backoff>>

\* a lookup whose lock lives on to the end of the call
LookupUnlock_keepsLock(q) ==
    /\ Quiet
    /\ queries[q].pc = "locked"
    /\ queries' = [queries EXCEPT ![q] = afterLookup(queries[q].op)]
    /\ UNCHANGED <<finished, now, storage, config, rw_lock, queue, units,
                   workers, backoff>>

\* the lookup under the lock, which is released at the end of the block
LookupUnlock(q) ==
    /\ Quiet
    /\ queries[q].pc = "locked"
    /\ rw_lock' = 0
    /\ queries' = [queries EXCEPT ![q] = afterLookup(queries[q].op)]
    /\ UNCHANGED <<finished, now, storage, config, queue, units, workers,
                   backoff>>

\* the keys that have a slot in the storage, as the storage lists them
getCachedSimpleKeys(st) == SortedSeq({k \in Keys : st[k].present})

\* what a call of getCachedSimpleKeys can return: the snapshot; made without
\* the lock while an update thread is inside its insert loop, the read races
\* with insertColumnsForKeys and can return any list of keys
Snapshots(st, racing) ==
    IF racing THEN {SortedSeq(S) : S \in SUBSET Keys}
    ELSE {getCachedSimpleKeys(st)}

\* getBlockInputStream: the stream is made over a snapshot of the cached
\* keys, taken without rw_lock; nothing is read yet
getBlockInputStream(q) ==
    /\ Quiet
    /\ queries[q].pc = "idle"
    /\ \E keys \in Snapshots(storage, rw_lock \in Workers) :
          queries' = [queries EXCEPT ![q].pc = "stream",
                                     ![q].op = "getColumns",
                                     ![q].keys = keys]
    /\ UNCHANGED <<finished, now, storage, config, rw_lock, queue, units, workers,
                   backoff>>

\* getElementCount (getBytesAllocated and getLoadFactor alike): the size of
\* the storage, read under the read lock
getElementCount(q) ==
    /\ Quiet
    /\ queries[q].pc = "idle"
    /\ rw_lock = 0
    /\ queries' = [queries EXCEPT ![q].pc = "returned",
                                  ![q].op = "getElementCount",
                                  ![q].out = <<getSize(storage)>>]
    /\ UNCHANGED <<finished, now, storage, config, rw_lock, queue, units, workers,
                   backoff>>

\* the stream is read: getColumns is called with the keys of the snapshot,
\* which fit in one block of max_block_size keys
ReadStream(q) ==
    /\ Quiet
    /\ queries[q].pc = "stream"
    /\ rw_lock = 0
    /\ queries' = [queries EXCEPT ![q] = afterLookupOf(queries[q].keys, "getColumns")]
    /\ UNCHANGED <<finished, now, storage, config, rw_lock, queue, units, workers,
                   backoff>>

\* the result of a call that completes from storage alone
storageResult(q) ==
    IF queries[q].op = "getColumns"
    THEN columnsFromStorage(queries[q].keys, queries[q].res, returnsInKeyOrder)
    ELSE [i \in 1..Len(queries[q].keys) |-> TRUE]

\* two index maps as one, the first taking precedence
Merged(f, g) ==
    [k \in DOMAIN f \cup DOMAIN g |-> IF k \in DOMAIN f THEN f[k] ELSE g[k]]

\* a merge that takes the expired rows of the lookup as found
mergedResult_expired(q, update_columns, update_index) ==
    IF queries[q].op = "getColumns"
    THEN aggregateColumns(queries[q].keys, TRUE,
            queries[q].res.fetched_columns,
            Merged(queries[q].res.found_keys_to_fetched_columns_index,
                   queries[q].res.expired_keys_to_fetched_columns_index),
            update_columns, update_index)
    ELSE hasKeysResult(queries[q].keys,
            queries[q].res.found_keys_to_fetched_columns_index, update_index)

\* the result of a call after its update (update_index, update_columns)
mergedResult(q, update_columns, update_index) ==
    IF queries[q].op = "getColumns"
    THEN aggregateColumns(queries[q].keys, TRUE,
            queries[q].res.fetched_columns,
            queries[q].res.found_keys_to_fetched_columns_index,
            update_columns, update_index)
    ELSE hasKeysResult(queries[q].keys,
            queries[q].res.found_keys_to_fetched_columns_index, update_index)

FreeUnits == {u \in UnitIds : units[u].state = "none"}

\* a push that does not look at the queue's capacity
tryPush_unbounded(q, u) ==
    /\ finished = "no"
    /\ u \in FreeUnits
    /\ \A v \in FreeUnits : u <= v
    /\ queue' = Append(queue, u)
    /\ units' = [units EXCEPT ![u] =
          [state |-> "pending",
           keys |-> queries[q].res.not_found_or_expired_keys,
           fill |-> queries[q].op = "getColumns",
           fetched |-> << >>, index |-> EmptyMap, found_num |-> 0,
           owner |-> q, err |-> "none", got |-> EmptyMap, runs |-> 0,
           changed |-> FALSE, asked |-> FALSE]]

\* tryPushToUpdateQueueOrThrow finding room: the unit of query q is enqueued
tryPush(q, u) ==
    /\ finished = "no"
    /\ Len(queue) < max_update_queue_size
    /\ u \in FreeUnits
    /\ \A v \in FreeUnits : u <= v
    /\ queue' = Append(queue, u)
    /\ units' = [units EXCEPT ![u] =
          [state |-> "pending",
           keys |-> queries[q].res.not_found_or_expired_keys,
           fill |-> queries[q].op = "getColumns",
           fetched |-> << >>, index |-> EmptyMap, found_num |-> 0,
           owner |-> q, err |-> "none", got |-> EmptyMap, runs |-> 0,
           changed |-> FALSE, asked |-> FALSE]]

AllHit(q) ==
    /\ Quiet
    /\ queries[q].pc = "fetched"
    /\ queries[q].branch = "all_hit"
    /\ queries' = [queries EXCEPT ![q].pc = "returned",
                                  ![q].out = storageResult(q)]
    /\ UNCHANGED <<finished, now, storage, config, rw_lock, queue, units,
                   workers, backoff>>

\* an async branch that fails at once inside a backoff window
AsyncUpdate_failsInBackoff(q) ==
    /\ Quiet
    /\ queries[q].pc = "fetched"
    /\ queries[q].branch = "async"
    /\ IF now < backoff_end_time
       THEN /\ queries' = [queries EXCEPT ![q].pc = "failed",
                                          ![q].err = "update_failed"]
            /\ UNCHANGED <<queue, units>>
       ELSE \E u \in UnitIds :
              /\ tryPush(q, u)
              /\ queries' = [queries EXCEPT ![q].pc = "returned",
                                            ![q].unit = u,
                                            ![q].out = storageResult(q)]
    /\ UNCHANGED <<finished, now, storage, config, rw_lock, workers, backoff>>

\* an async branch that returns the expired values and pushes no unit
AsyncUpdate_noPush(q) ==
    /\ Quiet
    /\ queries[q].pc = "fetched"
    /\ queries[q].branch = "async"
    /\ queries' = [queries EXCEPT ![q].pc = "returned",
                                  ![q].out = storageResult(q)]
    /\ UNCHANGED <<finished, now, storage, config, rw_lock, queue, units,
                   workers, backoff>>

AsyncUpdate(q) ==
    /\ Quiet
    /\ queries[q].pc = "fetched"
    /\ queries[q].branch = "async"
    /\ \E u \in UnitIds :
          /\ tryPush(q, u)
          /\ queries' = [queries EXCEPT ![q].pc = "returned",
                                        ![q].unit = u,
                                        ![q].out = storageResult(q)]
    /\ UNCHANGED <<finished, now, storage, config, rw_lock, workers, backoff>>

\* a sync update in which the client thread asks the source itself
SyncUpdate_inline(q) ==
    /\ Quiet
    /\ queries[q].pc = "fetched"
    /\ queries[q].branch = "sync"
    /\ \E u \in FreeUnits :
          /\ \A v \in FreeUnits : u <= v
          /\ units' = [units EXCEPT ![u] =
                [NoUnit EXCEPT !.state = "running",
                               !.keys = queries[q].res.not_found_or_expired_keys,
                               !.fill = queries[q].op = "getColumns",
                               !.owner = q, !.runs = 1, !.asked = TRUE]]
          /\ queries' = [queries EXCEPT ![q].pc = "waiting", ![q].unit = u]
    /\ UNCHANGED <<finished, now, storage, config, rw_lock, queue, workers,
                   backoff>>

\* a sync update that merges right after the push, without the wait
SyncUpdate_noWait(q) ==
    /\ Quiet
    /\ queries[q].pc = "fetched"
    /\ queries[q].branch = "sync"
    /\ \E u \in UnitIds :
          /\ tryPush(q, u)
          /\ queries' = [queries EXCEPT
                ![q].pc = "returned",
                ![q].unit = u,
                ![q].out = mergedResult(q, << >>, EmptyMap)]
    /\ UNCHANGED <<finished, now, storage, config, rw_lock, workers, backoff>>

SyncUpdate(q) ==
    /\ Quiet
    /\ queries[q].pc = "fetched"
    /\ queries[q].branch = "sync"
    /\ \E u \in UnitIds :
          /\ tryPush(q, u)
          /\ queries' = [queries EXCEPT ![q].pc = "waiting", ![q].unit = u]
    /\ UNCHANGED <<finished, now, storage, config, rw_lock, workers, backoff>>

\* hasKeys with expired keys only and no permission to read them: no update
NoUpdate(q) ==
    /\ Quiet
    /\ queries[q].pc = "fetched"
    /\ queries[q].branch = "none"
    /\ queries' = [queries EXCEPT ![q].pc = "returned",
                                  ![q].out = mergedResult(q, << >>, EmptyMap)]
    /\ UNCHANGED <<finished, now, storage, config, rw_lock, queue, units,
                   workers, backoff>>

\* tryPushToUpdateQueueOrThrow: the queue stayed full for the push timeout
PushTimeout(q) ==
    /\ Quiet
    /\ queries[q].pc = "fetched"
    /\ queries[q].branch \in {"async", "sync"}
    /\ Len(queue) >= max_update_queue_size
    /\ queries' = [queries EXCEPT ![q].pc = "failed",
                                  ![q].err = "queue_full"]
    /\ UNCHANGED <<finished, now, storage, config, rw_lock, queue, units,
                   workers, backoff>>

\* tryPushToUpdateQueueOrThrow on a queue that was stopped
PushStopped(q) ==
    /\ Quiet
    /\ queries[q].pc = "fetched"
    /\ queries[q].branch \in {"async", "sync"}
    /\ finished # "no"
    /\ queries' = [queries EXCEPT ![q].pc = "failed",
                                  ![q].err = "queue_finished"]
    /\ UNCHANGED <<finished, now, storage, config, rw_lock, queue, units,
                   workers, backoff>>

\* waitForCurrentUpdateFinish returns: the unit is done without an error;
\* the unit's index map (and, in getColumnsImpl, its columns) are moved out
\* of the unit and merged
WaitFinished(q) ==
    /\ Quiet
    /\ queries[q].pc = "waiting"
    /\ units[queries[q].unit].state = "done_ok"
    /\ queries' = [queries EXCEPT
          ![q].pc = "returned",
          ![q].out = mergedResult(q, units[queries[q].unit].fetched,
                                  units[queries[q].unit].index)]
    /\ units' = [units EXCEPT
          ![queries[q].unit].index = EmptyMap,
          ![queries[q].unit].fetched =
              IF queries[q].op = "getColumns" THEN << >> ELSE @]
    /\ UNCHANGED <<finished, now, storage, config, rw_lock, queue, workers, backoff>>

\* waitForCurrentUpdateFinish rethrows the exception the unit carries
WaitFailed(q) ==
    /\ Quiet
    /\ queries[q].pc = "waiting"
    /\ units[queries[q].unit].state = "done_err"
    /\ queries' = [queries EXCEPT ![q].pc = "failed",
                                  ![q].err = units[queries[q].unit].err]
    /\ UNCHANGED <<finished, now, storage, config, rw_lock, queue, units,
                   workers, backoff>>

\* waitForCurrentUpdateFinish: the wait timeout elapsed before the unit ended
WaitTimeout(q) ==
    /\ Quiet
    /\ queries[q].pc = "waiting"
    /\ ~Done(queries[q].unit)
    /\ queries' = [queries EXCEPT ![q].pc = "failed",
                                  ![q].err = "wait_timeout"]
    /\ UNCHANGED <<finished, now, storage, config, rw_lock, queue, units,
                   workers, backoff>>

\* -------------------------------------------------------------------- workers
\* the unit's index map after a block read when found_num rows were read
\* before it: row i of the block is row found_num + i of the unit's columns
indexAfterBlock(index, block, found_num) ==
    LET blockKeys == {block[i][1] : i \in DOMAIN block}
        last(k) == CHOOSE i \in DOMAIN block :
                      /\ block[i][1] = k
                      /\ \A j \in DOMAIN block : block[j][1] = k => j <= i
    IN  [k \in DOMAIN index \cup blockKeys |->
            IF k \in blockKeys THEN found_num + (last(k) - 1) ELSE index[k]]

\* the unit's column after a block read
columnAfterBlock(column, block, fill) ==
    IF fill THEN column \o [i \in 1..Len(block) |-> block[i][2]] ELSE column

\* what the source has returned for each key so far in this refresh (kept
\* for the statement of properties; the code has no such field)
rowsAfterBlock(got, block) ==
    LET blockKeys == {block[i][1] : i \in DOMAIN block}
        last(k) == CHOOSE i \in DOMAIN block :
                      /\ block[i][1] = k
                      /\ \A j \in DOMAIN block : block[j][1] = k => j <= i
    IN  [k \in DOMAIN got \cup blockKeys |->
            IF k \in blockKeys THEN block[last(k)][2] ELSE got[k]]

\* the update thread's hand-over of a unit that ended: waiters are notified;
\* a unit nobody references any more is destroyed
finishUnit(u, state, err) ==
    IF units[u].owner = 0 THEN [units EXCEPT ![u] = NoUnit]
    ELSE [units EXCEPT ![u].state = state, ![u].err = err]

\* an update thread that reads the head of the queue and leaves it there
Pop_peek(w) ==
    /\ Quiet
    /\ workers[w].pc = "idle"
    /\ queue # << >>
    /\ queue' = queue
    /\ units' = [units EXCEPT ![Head(queue)].state = "running",
                             ![Head(queue)].runs = @ + 1]
    /\ workers' = [workers EXCEPT ![w].pc = "update", ![w].unit = Head(queue)]
    /\ UNCHANGED <<finished, now, storage, config, rw_lock, backoff, queries>>

\* an update thread pops a unit and calls update() on it
Pop(w) ==
    /\ Quiet
    /\ workers[w].pc = "idle"
    /\ queue # << >>
    /\ queue' = Tail(queue)
    /\ units' = [units EXCEPT ![Head(queue)].state = "running",
                             ![Head(queue)].runs = @ + 1]
    /\ workers' = [workers EXCEPT ![w].pc = "update", ![w].unit = Head(queue)]
    /\ UNCHANGED <<finished, now, storage, config, rw_lock, backoff, queries>>

\* an update that goes on to the source whatever backoff_end_time is
BackoffPassed_unchecked(w) ==
    /\ Quiet
    /\ workers[w].pc = "update"
    /\ workers' = [workers EXCEPT ![w].pc = "load", ![w].wnow = now]
    /\ UNCHANGED <<finished, now, storage, config, rw_lock, queue, units,
                   backoff, queries>>

\* update(): now is read and found later than backoff_end_time
BackoffPassed(w) ==
    /\ Quiet
    /\ workers[w].pc = "update"
    /\ now > backoff_end_time
    /\ workers' = [workers EXCEPT ![w].pc = "load", ![w].wnow = now]
    /\ UNCHANGED <<finished, now, storage, config, rw_lock, queue, units,
                   backoff, queries>>

\* a suppressed update that is counted as one more failure
BackoffSuppressed_counts(w) ==
    /\ Quiet
    /\ workers[w].pc = "update"
    /\ ~(now > backoff_end_time)
    /\ error_count' = error_count + 1
    /\ \E duration \in calculateDurationWithBackoff(error_count + 1) :
          backoff_end_time' = now + duration
    /\ units' = finishUnit(workers[w].unit, "done_err", "update_failed")
    /\ workers' = [workers EXCEPT ![w] = IdleWorker]
    /\ UNCHANGED <<finished, now, storage, config, rw_lock, queue,
                   last_exception, queries>>

\* update(): the source is not asked, the unit fails at once
BackoffSuppressed(w) ==
    /\ Quiet
    /\ workers[w].pc = "update"
    /\ ~(now > backoff_end_time)
    /\ units' = finishUnit(workers[w].unit, "done_err", "update_failed")
    /\ workers' = [workers EXCEPT ![w] = IdleWorker]
    /\ UNCHANGED <<finished, now, storage, config, rw_lock, queue, backoff,
                   queries>>

\* update(): loadIds and readPrefix succeed
Load(w) ==
    /\ Quiet
    /\ workers[w].pc = "load"
    /\ \E stream \in Streams(units[workers[w].unit].keys, now) :
          workers' = [workers EXCEPT ![w].pc = "lock", ![w].stream = stream]
    /\ units' = [units EXCEPT ![workers[w].unit].asked = TRUE]
    /\ UNCHANGED <<finished, now, storage, config, rw_lock, queue,
                   backoff, queries>>

\* update(): loadIds and readPrefix succeed on a source that answers with
\* the rows asked for and the row of a key that was not asked for
LoadExtra(w) ==
    /\ Quiet
    /\ workers[w].pc = "load"
    /\ \E k \in SourceKeys \ Range(units[workers[w].unit].keys) :
       \E stream \in Streams(units[workers[w].unit].keys \o <<k>>, now) :
          workers' = [workers EXCEPT ![w].pc = "lock", ![w].stream = stream]
    /\ units' = [units EXCEPT ![workers[w].unit].asked = TRUE]
    /\ UNCHANGED <<finished, now, storage, config, rw_lock, queue,
                   backoff, queries>>

\* update(): the source throws before any block is read
LoadThrows(w) ==
    /\ Quiet
    /\ workers[w].pc = "load"
    /\ workers' = [workers EXCEPT ![w].pc = "catch"]
    /\ units' = [units EXCEPT ![workers[w].unit].asked = TRUE]
    /\ UNCHANGED <<finished, now, storage, config, rw_lock, queue,
                   backoff, queries>>

\* an update thread that goes on to the stream without the write lock
Lock_skipped(w) ==
    /\ Quiet
    /\ workers[w].pc = "lock"
    /\ workers' = [workers EXCEPT ![w].pc = "read"]
    /\ UNCHANGED <<finished, now, storage, config, rw_lock, queue, units,
                   backoff, queries>>

\* update(): the write lock for the cache modification is taken
Lock(w) ==
    /\ Quiet
    /\ workers[w].pc = "lock"
    /\ rw_lock = 0
    /\ rw_lock' = w
    /\ workers' = [workers EXCEPT ![w].pc = "read"]
    /\ UNCHANGED <<finished, now, storage, config, queue, units, backoff,
                   queries>>

\* a round of the loop that does not insert the block into the storage
ReadBlock_noInsert(w) ==
    /\ Quiet
    /\ workers[w].pc = "read"
    /\ workers[w].stream # << >>
    /\ LET u == workers[w].unit
           block == Head(workers[w].stream)
       IN  units' = [units EXCEPT
                 ![u].fetched = columnAfterBlock(@, block, units[u].fill),
                 ![u].index = indexAfterBlock(@, block, units[u].found_num),
                 ![u].found_num = @ + Len(block),
                 ![u].got = rowsAfterBlock(@, block)]
    /\ workers' = [workers EXCEPT ![w].stream = Tail(@)]
    /\ UNCHANGED <<finished, now, storage, config, rw_lock, queue, backoff,
                   queries>>

\* update(): one round of the loop over the stream's blocks
ReadBlock(w) ==
    /\ Quiet
    /\ workers[w].pc = "read"
    /\ workers[w].stream # << >>
    /\ LET u == workers[w].unit
           block == Head(workers[w].stream)
       IN  /\ storage' \in insertColumnsForKeys(storage, block, now)
           /\ units' = [units EXCEPT
                 ![u].fetched = columnAfterBlock(@, block, units[u].fill),
                 ![u].index = indexAfterBlock(@, block, units[u].found_num),
                 ![u].found_num = @ + Len(block),
                 ![u].got = rowsAfterBlock(@, block),
                 ![u].changed = @ \/ storage' # storage]
    /\ workers' = [workers EXCEPT ![w].stream = Tail(@)]
    /\ UNCHANGED <<finished, now, config, rw_lock, queue, backoff, queries>>

\* update(): the stream throws while it is read; the lock is released as the
\* exception leaves the try block
ReadThrows(w) ==
    /\ Quiet
    /\ workers[w].pc = "read"
    /\ rw_lock' = 0
    /\ workers' = [workers EXCEPT ![w].pc = "catch", ![w].stream = << >>]
    /\ UNCHANGED <<finished, now, storage, config, queue, units, backoff,
                   queries>>

\* the storage with a slot for every key of unit u the source did not return
withDefaultSlots(u) ==
    [k \in Keys |->
        IF k \in Range(units[u].keys) /\ ~Has(units[u].got, k)
        THEN [present |-> TRUE, value |-> 0,
              deadline |-> now + dict_lifetime.max_sec]
        ELSE storage[k]]

\* an end of the stream that stores the keys the source did not return
Finish_insertsDefaults(w) ==
    /\ Quiet
    /\ workers[w].pc = "read"
    /\ workers[w].stream = << >>
    /\ storage' = withDefaultSlots(workers[w].unit)
    /\ error_count' = 0
    /\ last_exception' = "none"
    /\ backoff_end_time' = 0
    /\ rw_lock' = 0
    /\ units' = finishUnit(workers[w].unit, "done_ok", "none")
    /\ workers' = [workers EXCEPT ![w] = IdleWorker]
    /\ UNCHANGED <<finished, now, config, queue, queries>>

\* an end of the stream that leaves the backoff state as it is
Finish_keepsBackoff(w) ==
    /\ Quiet
    /\ workers[w].pc = "read"
    /\ workers[w].stream = << >>
    /\ rw_lock' = 0
    /\ units' = finishUnit(workers[w].unit, "done_ok", "none")
    /\ workers' = [workers EXCEPT ![w] = IdleWorker]
    /\ UNCHANGED <<finished, now, storage, config, queue, backoff, queries>>

\* update(): end of stream; the backoff state is reset, the lock released,
\* and the update thread marks the unit done
Finish(w) ==
    /\ Quiet
    /\ workers[w].pc = "read"
    /\ workers[w].stream = << >>
    /\ error_count' = 0
    /\ last_exception' = "none"
    /\ backoff_end_time' = 0
    /\ rw_lock' = 0
    /\ units' = finishUnit(workers[w].unit, "done_ok", "none")
    /\ workers' = [workers EXCEPT ![w] = IdleWorker]
    /\ UNCHANGED <<finished, now, storage, config, queue, queries>>

\* a catch block that records the failure and does not throw again, so that
\* update() returns as after a success
Catch_noRethrow(w) ==
    /\ Quiet
    /\ workers[w].pc = "catch"
    /\ rw_lock = 0
    /\ error_count' = error_count + 1
    /\ last_exception' = "source_error"
    /\ \E duration \in calculateDurationWithBackoff(error_count + 1) :
          backoff_end_time' = workers[w].wnow + duration
    /\ units' = finishUnit(workers[w].unit, "done_ok", "none")
    /\ workers' = [workers EXCEPT ![w] = IdleWorker]
    /\ UNCHANGED <<finished, now, storage, config, rw_lock, queue, queries>>

\* update(): the catch block, under the write lock; the exception goes on to
\* the update thread, which stores it in the unit
Catch(w) ==
    /\ Quiet
    /\ workers[w].pc = "catch"
    /\ rw_lock = 0
    /\ error_count' = error_count + 1
    /\ last_exception' = "source_error"
    /\ \E duration \in calculateDurationWithBackoff(error_count + 1) :
          backoff_end_time' = workers[w].wnow + duration
    /\ units' = finishUnit(workers[w].unit, "done_err", "update_failed")
    /\ workers' = [workers EXCEPT ![w] = IdleWorker]
    /\ UNCHANGED <<finished, now, storage, config, rw_lock, queue, queries>>

\* ------------------------------------------------------------------- shutdown
\* the units after the queue cancelled those it still held
cancelQueued ==
    [u \in UnitIds |->
        IF u \notin Range(queue) THEN units[u]
        ELSE IF units[u].owner = 0 THEN NoUnit
        ELSE [units[u] EXCEPT !.state = "done_err", !.err = "shutdown"]]

\* a shutdown that empties the queue and leaves its units as they are
StopAndWait_dropQueued ==
    /\ Quiet
    /\ finished = "no"
    /\ finished' = "stopping"
    /\ queue' = << >>
    /\ UNCHANGED <<now, storage, config, rw_lock, units, workers, backoff,
                   queries>>

\* ~CacheDictionary calls stopAndWait: the queue stops accepting pushes and
\* the units still queued end with an error
StopAndWait ==
    /\ Quiet
    /\ finished = "no"
    /\ finished' = "stopping"
    /\ units' = cancelQueued
    /\ queue' = << >>
    /\ UNCHANGED <<now, storage, config, rw_lock, workers, backoff, queries>>

\* stopAndWait returns: every update thread has ended its unit
StopReturns ==
    /\ Quiet
    /\ finished = "stopping"
    /\ \A w \in Workers : workers[w].pc = "idle"
    /\ finished' = "stopped"
    /\ UNCHANGED <<now, storage, config, rw_lock, queue, units, workers,
                   backoff, queries>>

\* getColumnsImpl / hasKeys hands its result or its exception to the caller
\* and the query's reference to its update unit goes out of scope
Return(q) ==
    /\ queries[q].pc \in {"returned", "failed"}
    /\ queries' = [queries EXCEPT ![q] = IdleQuery]
    /\ units' = dropReference(q)
    /\ UNCHANGED <<finished, now, storage, config, rw_lock, queue, workers, backoff>>

\* ------------------------------------------------------------------ hierarchy
\* The hierarchical attribute is the one attribute of the model: the value
\* of a key is its parent, null_value for a key without a parent.
null_value == 0

\* "not calculated" in the out array of isInImpl
NotCalculated == 255

\* toParent for children that are all cached and fresh: getColumnsImpl
\* returns the values the storage holds
toParent(children) ==
    [j \in DOMAIN children |-> storage[children[j]].value]

\* getAt: an array is indexed, a single value stands for every index
getAt(ancestor_ids, idx) ==
    IF ancestor_ids.constant THEN ancestor_ids.value ELSE ancestor_ids.ids[idx + 1]

\* isInImpl: the while loop of one iteration, from row out_idx on.  The
\* indexes are those of the code (0-based); the result is the out array, the
\* children array and new_children_idx at the end of the loop.
RECURSIVE isInPass(_, _, _, _, _, _, _)
isInPass(out, parents, children, ancestor_ids, out_idx, parents_idx, new_children_idx) ==
    IF out_idx >= Len(out)
    THEN [out |-> out, children |-> children, new_children_idx |-> new_children_idx]
    ELSE IF out[out_idx + 1] # NotCalculated
    THEN isInPass(out, parents, children, ancestor_ids, out_idx + 1, parents_idx, new_children_idx)
    ELSE IF parents[parents_idx + 1] = null_value
    THEN isInPass([out EXCEPT ![out_idx + 1] = 0], parents, children, ancestor_ids, out_idx + 1, parents_idx + 1, new_children_idx)
    ELSE IF parents[parents_idx + 1] = getAt(ancestor_ids, parents_idx)
    THEN isInPass([out EXCEPT ![out_idx + 1] = 1], parents, children, ancestor_ids, out_idx + 1, parents_idx + 1, new_children_idx)
    ELSE IF children[new_children_idx + 1] = parents[parents_idx + 1]
    THEN isInPass([out EXCEPT ![out_idx + 1] = 1], parents, children, ancestor_ids, out_idx + 1, parents_idx + 1, new_children_idx)
    ELSE isInPass(out, parents, [children EXCEPT ![new_children_idx + 1] = parents[parents_idx + 1]], ancestor_ids, out_idx + 1, parents_idx + 1, new_children_idx + 1)

\* the rows of out that are not calculated, in their order: entry j of the
\* parents array belongs to row ActiveRows(out)[j]
ActiveRows(out) ==
    SelectSeq([r \in 1..Len(out) |-> r], LAMBDA r : out[r] = NotCalculated)

\* the child lists and ancestor arguments of a search
ChildLists == UNION {[1..n -> Keys] : n \in 1..MaxLen}

AncestorsFor(child_ids) ==
    {[constant |-> FALSE, value |-> 0, ids |-> a] : a \in [1..Len(child_ids) -> Keys]}
    \cup {[constant |-> TRUE, value |-> a, ids |-> << >>] : a \in Keys}

\* isInVectorVector / isInVectorConstant are called: isInImpl up to its loop
isInImpl(q) ==
    /\ Quiet
    /\ queries[q].pc = "idle"
    /\ \E child_ids \in ChildLists : \E ancestor_ids \in AncestorsFor(child_ids) :
          queries' = [queries EXCEPT ![q] =
             [pc |-> "isInImpl", i |-> 0, calls |-> 0,
              child_ids |-> child_ids, ancestor_ids |-> ancestor_ids,
              out |-> [r \in DOMAIN child_ids |-> NotCalculated],
              children |-> [r \in DOMAIN child_ids |-> 0],
              parents |-> child_ids,
              seen |-> [r \in DOMAIN child_ids |-> {}]]]
    /\ UNCHANGED <<finished, now, storage, config, rw_lock, queue, units, workers,
                   backoff>>

\* isInImpl: one iteration of the for loop; seen keeps, for every row, the
\* children the row was expanded with (the code has no such field)
isInIteration(q) ==
    /\ Quiet
    /\ queries[q].pc = "isInImpl"
    /\ queries[q].i < DBMS_HIERARCHICAL_DICTIONARY_MAX_DEPTH
    /\ LET c == queries[q]
           pass == isInPass(c.out, c.parents, c.children, c.ancestor_ids, 0, 0, 0)
           children == SubSeq(pass.children, 1, pass.new_children_idx)
           rows == ActiveRows(pass.out)
           seen == [r \in DOMAIN c.out |->
                      IF \E j \in DOMAIN rows : rows[j] = r
                      THEN c.seen[r] \cup
                           {children[j] : j \in {k \in DOMAIN rows : rows[k] = r}}
                      ELSE c.seen[r]]
       IN  queries' = [queries EXCEPT ![q] =
              IF pass.new_children_idx = 0
              THEN [c EXCEPT !.pc = "isInDone", !.out = pass.out]
              ELSE [c EXCEPT !.i = @ + 1, !.calls = @ + 1, !.out = pass.out,
                             !.children = children,
                             !.parents = toParent(children),
                             !.seen = seen]]
    /\ UNCHANGED <<finished, now, storage, config, rw_lock, queue, units, workers,
                   backoff>>

\* isInImpl: the for loop ends at the depth limit
isInDepthReached(q) ==
    /\ Quiet
    /\ queries[q].pc = "isInImpl"
    /\ queries[q].i >= DBMS_HIERARCHICAL_DICTIONARY_MAX_DEPTH
    /\ queries' = [queries EXCEPT ![q].pc = "isInDone"]
    /\ UNCHANGED <<finished, now, storage, config, rw_lock, queue, units, workers,
                   backoff>>

\* isInConstantVector is called
isInConstantVector(q) ==
    /\ Quiet
    /\ queries[q].pc = "idle"
    /\ \E child_id \in Keys : \E ancestor_ids \in ChildLists :
          queries' = [queries EXCEPT ![q] =
             [pc |-> "isInConstantVector", i |-> 0, calls |-> 0,
              child |-> child_id, ancestor_ids |-> ancestor_ids,
              ancestors |-> <<child_id>>, out |-> << >>]]
    /\ UNCHANGED <<finished, now, storage, config, rw_lock, queue, units, workers,
                   backoff>>

\* isInConstantVector: one iteration of the loop that collects the ancestors
isInConstantVectorIteration(q) ==
    /\ Quiet
    /\ queries[q].pc = "isInConstantVector"
    /\ queries[q].i < DBMS_HIERARCHICAL_DICTIONARY_MAX_DEPTH
    /\ LET c == queries[q]
           parent == toParent(<<c.child>>)
       IN  queries' = [queries EXCEPT ![q] =
              IF parent[1] = null_value
              THEN [c EXCEPT !.pc = "isInSearch", !.calls = @ + 1]
              ELSE [c EXCEPT !.i = @ + 1, !.calls = @ + 1,
                             !.child = parent[1],
                             !.ancestors = Append(@, parent[1])]]
    /\ UNCHANGED <<finished, now, storage, config, rw_lock, queue, units, workers,
                   backoff>>

\* isInConstantVector: the loop is left (at the depth limit or by its break)
\* and the ancestors are searched for every row
isInConstantVectorSearch(q) ==
    /\ Quiet
    /\ \/ queries[q].pc = "isInSearch"
       \/ /\ queries[q].pc = "isInConstantVector"
          /\ queries[q].i >= DBMS_HIERARCHICAL_DICTIONARY_MAX_DEPTH
    /\ queries' = [queries EXCEPT
          ![q].pc = "isInDone",
          ![q].out = [r \in DOMAIN queries[q].ancestor_ids |->
                        IF queries[q].ancestor_ids[r] \in Range(queries[q].ancestors)
                        THEN 1 ELSE 0]]
    /\ UNCHANGED <<finished, now, storage, config, rw_lock, queue, units, workers,
                   backoff>>

\* the search returns to its caller
isInReturn(q) ==
    /\ queries[q].pc = "isInDone"
    /\ queries' = [queries EXCEPT ![q] = IdleQuery]
    /\ UNCHANGED <<finished, now, storage, config, rw_lock, queue, units, workers,
                   backoff>>

\* --------------------------------------------------------------- construction
\* defaults and the floor of the update queue options
DefaultMaxUpdateQueueSize == 100000
DefaultUpdateQueuePushTimeoutMilliseconds == 10
MinUpdateQueuePushTimeoutMilliseconds == 10
DefaultMaxThreadsForUpdates == 4

\* an option of the configuration: not set, or set to one of the values
Unset(value) == [set |-> FALSE, value |-> value]

Options(values) == {Unset(0)} \cup {[set |-> TRUE, value |-> v] : v \in values}

\* config.getUInt64(path, default) / config.getBool(path, default)
getOption(option, default) == IF option.set THEN option.value ELSE default

\* the configurations, dictionary structures and sources a cache layout may
\* be created from: each option unset, at a rejected value or at an accepted one
Configurations ==
    [size_in_cells : 0..MaxCells,
     max_update_queue_size : Options({0, 1}),
     update_queue_push_timeout_milliseconds :
         Options({MinUpdateQueuePushTimeoutMilliseconds - 1,
                  MinUpdateQueuePushTimeoutMilliseconds,
                  MinUpdateQueuePushTimeoutMilliseconds + 1}),
     max_threads_for_updates : Options({0, 1}),
     require_nonempty : {Unset(FALSE), [set |-> TRUE, value |-> TRUE],
                         [set |-> TRUE, value |-> FALSE]},
     range_min : BOOLEAN,
     range_max : BOOLEAN,
     key : BOOLEAN,
     supportsSelectiveLoad : BOOLEAN]

NoInstance ==
    [size_in_cells |-> 0, max_update_queue_size |-> 0, max_threads_for_updates |-> 0,
     update_queue_push_timeout_milliseconds |-> 0]

\* parseCacheStorageConfiguration: the error, or the capacity
parseCacheStorageConfiguration(cfg) ==
    IF cfg.size_in_cells = 0
    THEN [err |-> "TOO_SMALL_BUFFER_SIZE", size_in_cells |-> 0]
    ELSE [err |-> "none", size_in_cells |-> cfg.size_in_cells]

\* parseCacheDictionaryUpdateQueueConfiguration without the floor of the push
\* timeout
parseCacheDictionaryUpdateQueueConfiguration_noFloor(cfg) ==
    LET size == getOption(cfg.max_update_queue_size, DefaultMaxUpdateQueueSize)
        timeout == getOption(cfg.update_queue_push_timeout_milliseconds,
                             DefaultUpdateQueuePushTimeoutMilliseconds)
        threads == getOption(cfg.max_threads_for_updates, DefaultMaxThreadsForUpdates)
    IN  IF size = 0
        THEN [err |-> "TOO_SMALL_BUFFER_SIZE", max_update_queue_size |-> 0,
              max_threads_for_updates |-> 0, update_queue_push_timeout_milliseconds |-> 0]
        ELSE IF threads = 0
        THEN [err |-> "BAD_ARGUMENTS", max_update_queue_size |-> 0,
              max_threads_for_updates |-> 0, update_queue_push_timeout_milliseconds |-> 0]
        ELSE [err |-> "none", max_update_queue_size |-> size,
              max_threads_for_updates |-> threads,
              update_queue_push_timeout_milliseconds |-> timeout]

\* parseCacheDictionaryUpdateQueueConfiguration: the error, or the options of
\* the update queue
parseCacheDictionaryUpdateQueueConfiguration(cfg) ==
    LET size == getOption(cfg.max_update_queue_size, DefaultMaxUpdateQueueSize)
        timeout == getOption(cfg.update_queue_push_timeout_milliseconds,
                             DefaultUpdateQueuePushTimeoutMilliseconds)
        threads == getOption(cfg.max_threads_for_updates, DefaultMaxThreadsForUpdates)
    IN  IF size = 0
        THEN [err |-> "TOO_SMALL_BUFFER_SIZE", max_update_queue_size |-> 0,
              max_threads_for_updates |-> 0, update_queue_push_timeout_milliseconds |-> 0]
        ELSE IF timeout < MinUpdateQueuePushTimeoutMilliseconds
        THEN [err |-> "BAD_ARGUMENTS", max_update_queue_size |-> 0,
              max_threads_for_updates |-> 0, update_queue_push_timeout_milliseconds |-> 0]
        ELSE IF threads = 0
        THEN [err |-> "BAD_ARGUMENTS", max_update_queue_size |-> 0,
              max_threads_for_updates |-> 0, update_queue_push_timeout_milliseconds |-> 0]
        ELSE [err |-> "none", max_update_queue_size |-> size,
              max_threads_for_updates |-> threads,
              update_queue_push_timeout_milliseconds |-> timeout]

\* the constructor: the error, or none
CacheDictionary(cfg) ==
    IF ~cfg.supportsSelectiveLoad THEN "UNSUPPORTED_METHOD" ELSE "none"

\* create_simple_cache_layout: the checks in the order of the code; the
\* result is the error and no instance, or no error and the instance
create_simple_cache_layout(cfg) ==
    LET storage_configuration == parseCacheStorageConfiguration(cfg)
        update_queue_configuration == parseCacheDictionaryUpdateQueueConfiguration(cfg)
        rejected(err) == [err |-> err, instance |-> NoInstance]
    IN  IF cfg.key THEN rejected("UNSUPPORTED_METHOD")
        ELSE IF cfg.range_min \/ cfg.range_max THEN rejected("BAD_ARGUMENTS")
        ELSE IF getOption(cfg.require_nonempty, FALSE) THEN rejected("BAD_ARGUMENTS")
        ELSE IF storage_configuration.err # "none"
        THEN rejected(storage_configuration.err)
        ELSE IF update_queue_configuration.err # "none"
        THEN rejected(update_queue_configuration.err)
        ELSE IF CacheDictionary(cfg) # "none" THEN rejected(CacheDictionary(cfg))
        ELSE [err |-> "none",
              instance |->
                 [size_in_cells |-> storage_configuration.size_in_cells,
                  max_update_queue_size |->
                      update_queue_configuration.max_update_queue_size,
                  max_threads_for_updates |->
                      update_queue_configuration.max_threads_for_updates,
                  update_queue_push_timeout_milliseconds |->
                      update_queue_configuration.update_queue_push_timeout_milliseconds]]

\* the factory creates a dictionary of layout 'cache' for a caller
Create(q) ==
    /\ queries[q].pc = "idle"
    /\ \E cfg \in Configurations :
          LET created == create_simple_cache_layout(cfg)
          IN  queries' = [queries EXCEPT ![q] =
                 [pc |-> IF created.err = "none" THEN "created" ELSE "rejected",
                  configuration |-> cfg,
                  err |-> created.err,
                  instance |-> created.instance]]
    /\ UNCHANGED <<finished, now, storage, config, rw_lock, queue, units, workers,
                   backoff>>

\* the caller lets go of the instance
Destroy(q) ==
    /\ queries[q].pc = "created"
    /\ queries' = [queries EXCEPT ![q] = IdleQuery]
    /\ UNCHANGED <<finished, now, storage, config, rw_lock, queue, units, workers,
                   backoff>>

\* the caller has caught the exception of the factory
CreateFailed(q) ==
    /\ queries[q].pc = "rejected"
    /\ queries' = [queries EXCEPT ![q] = IdleQuery]
    /\ UNCHANGED <<finished, now, storage, config, rw_lock, queue, units, workers,
                   backoff>>

\* --------------------------------------------------------------- specification
\* One client thread and one update thread, every key list and both
\* operations, with the clock running: the query pipeline.
Init == InitOf(KeyLists, {Lifetime}, {MaxCells})

Next ==
    \/ Tick(MaxTime)
    \/ \E op \in {"getColumns", "hasKeys"} : Lookup(1, op)
    \/ AllHit(1)
    \/ AsyncUpdate(1)
    \/ SyncUpdate(1)
    \/ NoUpdate(1)
    \/ PushTimeout(1)
    \/ WaitFinished(1)
    \/ WaitFailed(1)
    \/ WaitTimeout(1)
    \/ Return(1)
    \/ Pop(1)
    \/ BackoffPassed(1)
    \/ BackoffSuppressed(1)
    \/ Load(1)
    \/ LoadThrows(1)
    \/ Lock(1)
    \/ ReadBlock(1)
    \/ ReadThrows(1)
    \/ Finish(1)
    \/ Catch(1)

Spec == Init /\ [][Next]_vars

\* Every client thread and every update thread, asking for one key the
\* source holds or one it does not, at a fixed time: the update queue.
InitQueue == InitOf({<<1>>, <<MaxKey>>}, {Lifetime}, {MaxCells})

NextQueue ==
    \/ \E q \in Queries, op \in {"getColumns", "hasKeys"} : Lookup(q, op)
    \/ \E q \in Queries : AllHit(q)
    \/ \E q \in Queries : SyncUpdate(q)
    \/ \E q \in Queries : PushTimeout(q)
    \/ \E q \in Queries : WaitFinished(q)
    \/ \E q \in Queries : WaitFailed(q)
    \/ \E q \in Queries : WaitTimeout(q)
    \/ \E q \in Queries : Return(q)
    \/ \E w \in Workers : Pop(w)
    \/ \E w \in Workers : BackoffPassed(w)
    \/ \E w \in Workers : BackoffSuppressed(w)
    \/ \E w \in Workers : Load(w)
    \/ \E w \in Workers : LoadThrows(w)
    \/ \E w \in Workers : Lock(w)
    \/ \E w \in Workers : ReadBlock(w)
    \/ \E w \in Workers : ReadThrows(w)
    \/ \E w \in Workers : Finish(w)
    \/ \E w \in Workers : Catch(w)

SpecQueue == InitQueue /\ [][NextQueue]_vars

\* Every client thread and one update thread, with the shutdown of the
\* dictionary: a unit can be in flight while another one is queued.
InitStop == InitOf({<<1>>}, {Lifetime}, {MaxCells})

NextStop ==
    \/ \E q \in Queries, op \in {"getColumns", "hasKeys"} : Lookup(q, op)
    \/ \E q \in Queries : AllHit(q)
    \/ \E q \in Queries : SyncUpdate(q)
    \/ \E q \in Queries : PushTimeout(q)
    \/ \E q \in Queries : PushStopped(q)
    \/ \E q \in Queries : WaitFinished(q)
    \/ \E q \in Queries : WaitFailed(q)
    \/ \E q \in Queries : WaitTimeout(q)
    \/ \E q \in Queries : Return(q)
    \/ Pop(1)
    \/ BackoffPassed(1)
    \/ BackoffSuppressed(1)
    \/ Load(1)
    \/ LoadThrows(1)
    \/ Lock(1)
    \/ ReadBlock(1)
    \/ ReadThrows(1)
    \/ Finish(1)
    \/ Catch(1)
    \/ StopAndWait
    \/ StopReturns

SpecStop == InitStop /\ [][NextStop]_vars

\* One client thread asking for a key the source holds and one update
\* thread, with a clock that runs long enough for three failures in a row:
\* the backoff.
InitBackoff == InitOf({<<1>>}, {Lifetime}, {MaxCells})

NextBackoff ==
    \/ Tick(MaxBackoffTime)
    \/ Lookup(1, "getColumns")
    \/ AllHit(1)
    \/ AsyncUpdate(1)
    \/ SyncUpdate(1)
    \/ PushTimeout(1)
    \/ WaitFinished(1)
    \/ WaitFailed(1)
    \/ WaitTimeout(1)
    \/ Return(1)
    \/ Pop(1)
    \/ BackoffPassed(1)
    \/ BackoffSuppressed(1)
    \/ Load(1)
    \/ LoadThrows(1)
    \/ Lock(1)
    \/ ReadBlock(1)
    \/ ReadThrows(1)
    \/ Finish(1)
    \/ Catch(1)

SpecBackoff == InitBackoff /\ [][NextBackoff]_vars

\* the lifetimes a dictionary may be configured with: min_sec <= max_sec
Lifetimes ==
    {l \in [min_sec : 0..LifetimeMax, max_sec : 0..LifetimeMax] :
        l.min_sec <= l.max_sec}

\* One client thread asking for two keys the source holds, one update thread
\* and a source that does not fail, under every lifetime and every capacity:
\* the storage.
InitStorage == InitOf({<<1, 2>>}, Lifetimes, 1..MaxCells)

NextStorage ==
    \/ Tick(MaxTime)
    \/ Lookup(1, "getColumns")
    \/ AllHit(1)
    \/ AsyncUpdate(1)
    \/ SyncUpdate(1)
    \/ WaitFinished(1)
    \/ Return(1)
    \/ Pop(1)
    \/ BackoffPassed(1)
    \/ Load(1)
    \/ Lock(1)
    \/ ReadBlock(1)
    \/ Finish(1)

SpecStorage == InitStorage /\ [][NextStorage]_vars

\* One client thread asking for a key the source holds and one update
\* thread over a source that does not fail, with a wait timeout long
\* enough for every update.  The update thread is a thread of its own that
\* runs whenever it has something to do, and a call that has its result
\* hands it over: the refresh in the background.
InitRefresh == InitOf({<<1>>}, {Lifetime}, {MaxCells})

NextRefresh ==
    \/ Tick(MaxTime)
    \/ Lookup(1, "getColumns")
    \/ AllHit(1)
    \/ AsyncUpdate(1)
    \/ SyncUpdate(1)
    \/ PushTimeout(1)
    \/ WaitFinished(1)
    \/ Return(1)
    \/ Pop(1)
    \/ BackoffPassed(1)
    \/ Load(1)
    \/ Lock(1)
    \/ ReadBlock(1)
    \/ Finish(1)

\* the steps of the update thread wait while a result is handed over, which
\* takes no time in the code: the thread is scheduled fairly if it takes
\* every step that is possible again and again
FairRefresh ==
    /\ WF_vars(Return(1))
    /\ SF_vars(Pop(1))
    /\ SF_vars(BackoffPassed(1))
    /\ SF_vars(Load(1))
    /\ SF_vars(Lock(1))
    /\ SF_vars(ReadBlock(1))
    /\ SF_vars(Finish(1))

SpecRefresh == InitRefresh /\ [][NextRefresh]_vars /\ FairRefresh

\* One client thread asking for a key the source holds and one update
\* thread over a source that may fail or never answer.  Nothing is assumed
\* of the update thread; the client thread runs on, gets the storage lock
\* whenever it is free again and again, and its timeouts elapse: the calls.
InitCalls == InitOf({<<1>>}, {Lifetime}, {MaxCells})

NextCalls ==
    \/ Tick(MaxTime)
    \/ \E op \in {"getColumns", "hasKeys"} : Call(1, op)
    \/ LockedLookup(1)
    \/ AllHit(1)
    \/ AsyncUpdate(1)
    \/ SyncUpdate(1)
    \/ NoUpdate(1)
    \/ PushTimeout(1)
    \/ WaitFinished(1)
    \/ WaitFailed(1)
    \/ WaitTimeout(1)
    \/ Return(1)
    \/ Pop(1)
    \/ BackoffPassed(1)
    \/ BackoffSuppressed(1)
    \/ Load(1)
    \/ LoadThrows(1)
    \/ Lock(1)
    \/ ReadBlock(1)
    \/ ReadThrows(1)
    \/ Finish(1)
    \/ Catch(1)

\* a step of the client thread past its lookup
AfterLookupStep(q) ==
    \/ AllHit(q)
    \/ AsyncUpdate(q)
    \/ SyncUpdate(q)
    \/ NoUpdate(q)
    \/ PushTimeout(q)
    \/ WaitFinished(q)
    \/ WaitFailed(q)
    \/ WaitTimeout(q)
    \/ Return(q)

FairCalls ==
    /\ SF_vars(LockedLookup(1))
    /\ WF_vars(AfterLookupStep(1))

SpecCalls == InitCalls /\ [][NextCalls]_vars /\ FairCalls

\* One client thread asking for a key the source holds, for one it does not
\* hold, or for both, and one update thread over a source that does not
\* fail and may return the row of a key it was not asked for: the source.
InitSource == InitOf({<<1>>, <<MaxKey>>, <<1, MaxKey>>}, {Lifetime}, {MaxCells})

NextSource ==
    \/ Tick(MaxTime)
    \/ \E op \in {"getColumns", "hasKeys"} : Lookup(1, op)
    \/ AllHit(1)
    \/ AsyncUpdate(1)
    \/ SyncUpdate(1)
    \/ NoUpdate(1)
    \/ WaitFinished(1)
    \/ Return(1)
    \/ Pop(1)
    \/ BackoffPassed(1)
    \/ Load(1)
    \/ LoadExtra(1)
    \/ Lock(1)
    \/ ReadBlock(1)
    \/ Finish(1)

SpecSource == InitSource /\ [][NextSource]_vars

\* One client thread that fills the cache with hasKeys calls for two keys the
\* source holds and reads the cache through getBlockInputStream, and one
\* update thread over a source that does not fail: the iteration.
InitIteration == InitOf({<<1, 2>>}, {Lifetime}, {MaxCells})

NextIteration ==
    \/ Tick(MaxTime)
    \/ Lookup(1, "hasKeys")
    \/ getBlockInputStream(1)
    \/ ReadStream(1)
    \/ AllHit(1)
    \/ AsyncUpdate(1)
    \/ SyncUpdate(1)
    \/ NoUpdate(1)
    \/ WaitFinished(1)
    \/ Return(1)
    \/ Pop(1)
    \/ BackoffPassed(1)
    \/ Load(1)
    \/ Lock(1)
    \/ ReadBlock(1)
    \/ Finish(1)

SpecIteration == InitIteration /\ [][NextIteration]_vars

\* One client thread that looks keys up, asks for the size of the storage and
\* iterates over it, and one update thread: the accesses to the storage.
InitAccess == InitOf({<<1>>}, {Lifetime}, {MaxCells})

NextAccess ==
    \/ Tick(MaxTime)
    \/ \E op \in {"getColumns", "hasKeys"} : Lookup(1, op)
    \/ getElementCount(1)
    \/ getBlockInputStream(1)
    \/ ReadStream(1)
    \/ AllHit(1)
    \/ AsyncUpdate(1)
    \/ SyncUpdate(1)
    \/ NoUpdate(1)
    \/ WaitFinished(1)
    \/ Return(1)
    \/ Pop(1)
    \/ BackoffPassed(1)
    \/ Load(1)
    \/ Lock(1)
    \/ ReadBlock(1)
    \/ Finish(1)

SpecAccess == InitAccess /\ [][NextAccess]_vars

\* One client thread that passes a key once or twice, and one update thread
\* over a source that does not fail: repeated keys.
InitRepeats == InitOf({<<1>>, <<1, 1>>}, {Lifetime}, {MaxCells})

NextRepeats ==
    \/ Tick(MaxTime)
    \/ \E op \in {"getColumns", "hasKeys"} : Lookup(1, op)
    \/ AllHit(1)
    \/ AsyncUpdate(1)
    \/ SyncUpdate(1)
    \/ NoUpdate(1)
    \/ WaitFinished(1)
    \/ Return(1)
    \/ Pop(1)
    \/ BackoffPassed(1)
    \/ Load(1)
    \/ Lock(1)
    \/ ReadBlock(1)
    \/ Finish(1)

SpecRepeats == InitRepeats /\ [][NextRepeats]_vars

\* One client thread whose hold of the storage lock is a state of its own,
\* and one update thread over a source that does not fail: the storage lock.
InitLock == InitOf({<<1>>}, {Lifetime}, {MaxCells})

NextLock ==
    \/ Tick(MaxTime)
    \/ \E op \in {"getColumns", "hasKeys"} : Call(1, op)
    \/ LookupLock(1)
    \/ LookupUnlock(1)
    \/ AllHit(1)
    \/ AsyncUpdate(1)
    \/ SyncUpdate(1)
    \/ NoUpdate(1)
    \/ PushTimeout(1)
    \/ WaitFinished(1)
    \/ WaitTimeout(1)
    \/ Return(1)
    \/ Pop(1)
    \/ BackoffPassed(1)
    \/ Load(1)
    \/ Lock(1)
    \/ ReadBlock(1)
    \/ Finish(1)

SpecLock == InitLock /\ [][NextLock]_vars

\* the hierarchies over the keys: every key cached and fresh, its value a
\* parent or null_value; chains, trees and cycles of every length
Hierarchies ==
    {[k \in Keys |-> [present |-> TRUE, value |-> f[k], deadline |-> MaxTime + 1]] :
        f \in [Keys -> Keys \cup {null_value}]}

\* One client thread that runs ancestor-of searches over a cache that holds
\* the whole hierarchy: the hierarchy.
InitHierarchy ==
    /\ key_columns = << >>
    /\ dict_lifetime = Lifetime
    /\ size_in_cells = MaxKey
    /\ finished = "no"
    /\ now = 1
    /\ storage \in Hierarchies
    /\ allow_read_expired_keys = FALSE
    /\ returnsInKeyOrder = TRUE
    /\ rw_lock = 0
    /\ queue = << >>
    /\ units = [u \in UnitIds |-> NoUnit]
    /\ workers = [w \in Workers |-> IdleWorker]
    /\ error_count = 0
    /\ last_exception = "none"
    /\ backoff_end_time = 0
    /\ queries = [q \in Queries |-> IdleQuery]

NextHierarchy ==
    \/ isInImpl(1)
    \/ isInIteration(1)
    \/ isInDepthReached(1)
    \/ isInConstantVector(1)
    \/ isInConstantVectorIteration(1)
    \/ isInConstantVectorSearch(1)
    \/ isInReturn(1)

SpecHierarchy == InitHierarchy /\ [][NextHierarchy]_vars

\* One thread that creates dictionaries of layout 'cache' from every
\* configuration: construction.
InitConstruction == InitOf({<<1>>}, {Lifetime}, {MaxCells})

NextConstruction ==
    \/ Create(1)
    \/ Destroy(1)
    \/ CreateFailed(1)

SpecConstruction == InitConstruction /\ [][NextConstruction]_vars

\* ------------------------------------------------------------------ properties
\* what the lookup of query q saw for row i of its key list
ClassAt(q, i) == queries[q].seen[i].class
ValueAt(q, i) == queries[q].seen[i].value
Rows(q) == 1..Len(queries[q].keys)

InCall(q) == queries[q].pc # "idle"
Answered(q) == queries[q].pc = "returned"
IsGetColumns(q) == queries[q].op = "getColumns"

AllFresh(q) == \A i \in Rows(q) : ClassAt(q, i) = "fresh"
SomeAbsent(q) == \E i \in Rows(q) : ClassAt(q, i) = "absent"
SomeExpired(q) == \E i \in Rows(q) : ClassAt(q, i) = "expired"

\* what the source returned for each key to the update unit of query q
GotBy(q) ==
    IF queries[q].unit = 0 THEN EmptyMap ELSE units[queries[q].unit].got

UnitsOf(q) == {u \in UnitIds : units[u].owner = q}

\* the values that belong to row i of query q: the slot's, the fetched one,
\* the row's default
ValuesForRow(q, i) ==
    {DefaultValue(i - 1)}
    \cup (IF ClassAt(q, i) # "absent" THEN {ValueAt(q, i)} ELSE {})
    \cup (IF Has(GotBy(q), queries[q].keys[i])
          THEN {GotBy(q)[queries[q].keys[i]]} ELSE {})

\* C1: a getColumns call that returns has one output row per input key, and
\* row i holds a value of input key i (its slot's value, the value fetched
\* for it, or the default of row i), whichever branch the call took.
C1_OutputAlignedWithKeys ==
    \A q \in Queries :
        Answered(q) /\ IsGetColumns(q) =>
            /\ Len(queries[q].out) = Len(queries[q].keys)
            /\ \A i \in Rows(q) : queries[q].out[i] \in ValuesForRow(q, i)

\* a call answered from storage whose rows had to be put back in key order
C1_Witness ==
    \E q \in Queries :
        /\ Answered(q) /\ IsGetColumns(q)
        /\ queries[q].branch = "all_hit"
        /\ ~returnsInKeyOrder
        /\ Len(queries[q].keys) = 2
        /\ queries[q].keys[1] > queries[q].keys[2]
        /\ queries[q].out = <<ValueAt(q, 1), ValueAt(q, 2)>>
        /\ ValueAt(q, 1) # ValueAt(q, 2)

\* C2: after a sync update, each output row is the slot's value if the key
\* was found fresh, else the value the source returned for the key to this
\* call's unit, else the default of the row.
C2_SyncMergePrecedence ==
    \A q \in Queries :
        Answered(q) /\ IsGetColumns(q) /\ queries[q].branch = "sync" =>
            \A i \in Rows(q) :
                queries[q].out[i] =
                    IF ClassAt(q, i) = "fresh" THEN ValueAt(q, i)
                    ELSE IF Has(GotBy(q), queries[q].keys[i])
                         THEN GotBy(q)[queries[q].keys[i]]
                    ELSE DefaultValue(i - 1)

\* a sync update answered with one row from storage and one row fetched
C2_Witness ==
    \E q \in Queries :
        /\ Answered(q) /\ IsGetColumns(q) /\ queries[q].branch = "sync"
        /\ \E i, j \in Rows(q) :
              /\ ClassAt(q, i) = "fresh"
              /\ queries[q].out[i] = ValueAt(q, i)
              /\ ClassAt(q, j) # "fresh"
              /\ Has(GotBy(q), queries[q].keys[j])
              /\ queries[q].out[j] = GotBy(q)[queries[q].keys[j]]

\* C3: a call whose keys were all found fresh takes the all-hit branch: it
\* never pushes or owns an update unit, never waits or fails, and it answers
\* from storage.
C3_AllFreshNoUpdate ==
    \A q \in Queries :
        InCall(q) /\ AllFresh(q) =>
            /\ queries[q].branch = "all_hit"
            /\ queries[q].pc \in {"fetched", "returned"}
            /\ queries[q].unit = 0
            /\ UnitsOf(q) = {}
            /\ Answered(q) =>
                  queries[q].out =
                      [i \in Rows(q) |->
                          IF IsGetColumns(q) THEN ValueAt(q, i) ELSE TRUE]

\* a getColumns call for two fresh keys has returned
C3_Witness ==
    \E q \in Queries :
        /\ Answered(q) /\ IsGetColumns(q) /\ AllFresh(q)
        /\ Len(queries[q].keys) = 2
        /\ UnitsOf(q) = {}

\* C4: with allow_read_expired_keys, a getColumns call with no absent key
\* and some expired key takes the async branch: it is never waiting; when
\* it returns it has pushed exactly one unit, which is still queued, and its
\* output is the slots' values, fresh and expired, for every key.
C4_AsyncRefreshNoWait ==
    \A q \in Queries :
        /\ InCall(q) /\ IsGetColumns(q) /\ allow_read_expired_keys
        /\ ~SomeAbsent(q) /\ SomeExpired(q)
        => /\ queries[q].branch = "async"
           /\ queries[q].pc \in {"fetched", "returned", "failed"}
           /\ queries[q].pc = "failed" =>
                 queries[q].err = "queue_full" /\ UnitsOf(q) = {}
           /\ Answered(q) =>
                 /\ UnitsOf(q) = {queries[q].unit}
                 /\ units[queries[q].unit].state = "pending"
                 /\ queries[q].out = [i \in Rows(q) |-> ValueAt(q, i)]

\* an async refresh answered with a fresh and an expired slot's values
C4_Witness ==
    \E q \in Queries :
        /\ Answered(q) /\ IsGetColumns(q) /\ allow_read_expired_keys
        /\ queries[q].branch = "async"
        /\ \E i, j \in Rows(q) :
              ClassAt(q, i) = "fresh" /\ ClassAt(q, j) = "expired"
        /\ queries[q].unit \in Range(queue)

\* C5: a getColumns call with an absent key, or with an expired key and no
\* permission to read expired keys, takes the sync branch: it returns only
\* with its unit pushed and done, and every expired key's row holds the
\* value fetched for the key or the row's default, never the slot's value.
C5_SyncUpdateNoStaleValue ==
    \A q \in Queries :
        /\ InCall(q) /\ IsGetColumns(q)
        /\ SomeAbsent(q) \/ (SomeExpired(q) /\ ~allow_read_expired_keys)
        => /\ queries[q].branch = "sync"
           /\ Answered(q) =>
                 /\ UnitsOf(q) = {queries[q].unit}
                 /\ units[queries[q].unit].state = "done_ok"
                 /\ \A i \in Rows(q) :
                       ClassAt(q, i) = "expired" =>
                          /\ queries[q].out[i] # ValueAt(q, i)
                          /\ queries[q].out[i] \in
                                ValuesForRow(q, i) \ {ValueAt(q, i)}

\* absent and expired keys mixed, expired keys readable: the expired key's
\* row is the fetched value
C5_Witness ==
    \E q \in Queries :
        /\ Answered(q) /\ IsGetColumns(q) /\ allow_read_expired_keys
        /\ \E i, j \in Rows(q) :
              /\ ClassAt(q, i) = "absent"
              /\ ClassAt(q, j) = "expired"
              /\ Has(GotBy(q), queries[q].keys[j])
              /\ queries[q].out[j] = GotBy(q)[queries[q].keys[j]]

\* would getColumns, after the same lookup, fill row i from storage or from
\* its update rather than with the default
WouldFill(q, i) ==
    LET branch == getColumnsBranch(
                     notFoundKeysSize(queries[q].keys, queries[q].res),
                     expiredKeysSize(queries[q].res),
                     allow_read_expired_keys)
    IN  IF branch \in {"all_hit", "async"} THEN TRUE
        ELSE ClassAt(q, i) = "fresh" \/ queries[q].keys[i] \in SourceKeys

\* C6: hasKeys and getColumns agree: row i of a hasKeys answer is true
\* exactly when getColumns, on the same cache state, source, configuration
\* and keys, fills row i from storage or from the update.
C6_HasKeysAgreesWithGetColumns ==
    \A q \in Queries :
        Answered(q) /\ ~IsGetColumns(q) =>
            \A i \in Rows(q) : queries[q].out[i] = WouldFill(q, i)

Holders(u) == {w \in Workers : workers[w].unit = u}

UnitMoves ==
    {<<"none", "pending">>, <<"pending", "running">>,
     <<"running", "done_ok">>, <<"running", "done_err">>,
     <<"running", "none">>, <<"done_ok", "none">>, <<"done_err", "none">>}

UnitStep(u) ==
    LET a == units[u].state
        b == units'[u].state
    IN  /\ a # b => <<a, b>> \in UnitMoves
        /\ a \in {"done_ok", "done_err"} /\ b # "none" =>
              /\ b = a
              /\ units'[u].err = units[u].err
              /\ units'[u].got = units[u].got
              /\ units'[u].keys = units[u].keys
        /\ a = "pending" => Holders(u) = {}
        /\ a = "pending" /\ b = "running" => Cardinality(Holders(u)') = 1
        /\ a = "running" => Cardinality(Holders(u)) = 1
        /\ a = "running" /\ b = "running" => Holders(u)' = Holders(u)
        /\ a = "running" /\ b # "running" => Holders(u)' = {}
        /\ a = "running" /\ b = "done_ok" =>
              \A w \in Holders(u) :
                 workers[w].pc = "read" /\ workers[w].stream = << >>
        /\ a = "running" /\ b = "done_err" =>
              \A w \in Holders(u) : workers[w].pc \in {"update", "catch"}

\* C7: a unit moves pending -> running -> done(ok) or done(err) and in no
\* other way until it is destroyed: it is claimed once, by one worker, it
\* ends once, with done(ok) when that worker reached the end of the stream
\* and done(err) when it failed, and a done unit never changes.
C7_UnitStateMachine == [][\A u \in UnitIds : UnitStep(u)]_vars

\* one unit has ended with a result while another one is being processed
C7_Witness ==
    \E u, v \in UnitIds :
        /\ units[u].state = "done_ok" /\ units[u].runs = 1
        /\ units[v].state = "running"

\* C8: update() runs at most once per unit and no two workers hold the same
\* unit; a unit is queued exactly while it is pending; and a query that
\* waited for its unit, which no other query waits for, reports the outcome
\* the unit ended with.
C8_AtMostOneWorkerPerUnit ==
    /\ \A u \in UnitIds :
          /\ units[u].runs <= 1
          /\ Cardinality(Holders(u)) <= 1
          /\ units[u].state = "running" <=> Holders(u) # {}
          /\ units[u].state = "pending" <=> u \in Range(queue)
          /\ Cardinality({i \in DOMAIN queue : queue[i] = u}) <= 1
    /\ \A q \in Queries :
          /\ Answered(q) /\ queries[q].branch = "sync" =>
                units[queries[q].unit].state = "done_ok"
          /\ queries[q].pc = "failed" /\ queries[q].err = "update_failed" =>
                /\ units[queries[q].unit].state = "done_err"
                /\ units[queries[q].unit].err = queries[q].err
          /\ \A p \in Queries :
                p # q /\ queries[q].unit # 0 =>
                   queries[p].unit # queries[q].unit

\* two workers are inside update() at once, each with a unit of its own
C8_Witness ==
    \E w, x \in Workers :
        /\ w # x
        /\ workers[w].pc = "read" /\ workers[x].pc \in {"load", "lock"}
        /\ workers[w].unit # workers[x].unit
        /\ units[workers[w].unit].runs = 1 /\ units[workers[x].unit].runs = 1

\* C9: the queue never holds more than max_update_queue_size units, and a
\* query that failed with queue-full has no unit: nothing was enqueued for
\* it, and the queue it found full is as it was.
C9_QueueBounded ==
    /\ Len(queue) <= max_update_queue_size
    /\ \A q \in Queries :
          queries[q].pc = "failed" /\ queries[q].err = "queue_full" =>
             /\ queries[q].unit = 0
             /\ UnitsOf(q) = {}
             /\ Len(queue) = max_update_queue_size

\* one query's unit fills the queue and another query has failed on it
C9_Witness ==
    \E q, p \in Queries :
        /\ queries[q].pc = "failed" /\ queries[q].err = "queue_full"
        /\ queries[p].pc = "waiting"
        /\ queue = <<queries[p].unit>>

\* the keys of the unit of query q that the source holds
Fetchable(q) ==
    {k \in Range(units[queries[q].unit].keys) : k \in SourceKeys}

\* C10: a call in the sync branch returns a result only when its unit is
\* done(ok), with the whole fetch in it and no worker on it any more; it
\* fails with the unit's error when the unit is done(err), and with
\* wait-timeout only while the unit is not done.
C10_SyncReturnsAfterDone ==
    \A q \in Queries :
        queries[q].branch = "sync" =>
            /\ Answered(q) =>
                  /\ queries[q].unit # 0
                  /\ units[queries[q].unit].state = "done_ok"
                  /\ Holders(queries[q].unit) = {}
                  /\ DOMAIN GotBy(q) = Fetchable(q)
            /\ queries[q].pc = "failed" =>
                  /\ queries[q].err \in
                        {"queue_full", "wait_timeout", "update_failed"}
                  /\ queries[q].err = "update_failed" =>
                        units[queries[q].unit].state = "done_err"
                  /\ queries[q].err = "wait_timeout" =>
                        /\ queries[q].unit # 0
                        /\ ~Done(queries[q].unit)

\* a sync call has returned with the values its unit fetched
C10_Witness ==
    \E q \in Queries :
        /\ Answered(q) /\ queries[q].branch = "sync"
        /\ units[queries[q].unit].state = "done_ok"
        /\ GotBy(q) # EmptyMap
        /\ IsGetColumns(q)
        /\ \E i \in Rows(q) :
              queries[q].out[i] = GotBy(q)[queries[q].keys[i]]

\* what holds in every state of a queue that is being or was shut down
StoppedState ==
    /\ finished # "no" =>
          /\ queue = << >>
          /\ \A u \in UnitIds : units[u].state # "pending"
    /\ finished = "stopped" =>
          /\ \A u \in UnitIds : units[u].state \notin {"pending", "running"}
          /\ \A w \in Workers : workers[w].unit = 0
          /\ \A q \in Queries :
                queries[q].pc = "waiting" => Done(queries[q].unit)

\* what every step of the shutdown and after it does
StoppedStep ==
    /\ finished = "no" /\ finished' # "no" =>
          \A u \in Range(queue) :
             IF units[u].owner = 0 THEN units'[u].state = "none"
             ELSE /\ units'[u].state = "done_err"
                  /\ units'[u].err = "shutdown"
                  /\ units'[u].runs = 0
    /\ finished # "no" =>
          /\ finished' # "no"
          /\ queue' = << >>
          /\ \A u \in UnitIds :
                units[u].state = "none" => units'[u].state = "none"

C12_StorageBounded == getSize(storage) <= size_in_cells

\* a fetch of two keys was inserted into a storage of one cell
C12_Witness ==
    /\ size_in_cells = 1
    /\ getSize(storage) = 1
    /\ \E u \in UnitIds :
          /\ units[u].state = "running"
          /\ Cardinality(DOMAIN units[u].got) = 2
          /\ units[u].changed

\* update thread w inserts the next block of its stream in this step
InsertStep(w) ==
    /\ workers[w].pc = "read"
    /\ workers[w].stream # << >>
    /\ workers'[w].stream = Tail(workers[w].stream)

\* after the step, a lookup at the same time finds the key of row i of the
\* block fresh, with the value of the row
FreshAfterInsert(block, i) ==
    /\ Classify(storage'[block[i][1]], now) = "fresh"
    /\ storage'[block[i][1]].value = block[i][2]

StartsUpdate(w) ==
    workers[w].pc = "update" /\ workers'[w] # workers[w]

\* the unit of update thread w ends in this step with the update-failed
\* error and without the source having been asked
FailsUnasked(w) ==
    LET u == workers[w].unit
    IN  /\ workers'[w] = IdleWorker
        /\ ~units[u].asked
        /\ IF units[u].owner = 0 THEN units'[u] = NoUnit
           ELSE /\ units'[u].state = "done_err"
                /\ units'[u].err = "update_failed"
                /\ ~units'[u].asked

\* C14: while now < backoff_end_time an update thread that takes a unit does
\* not ask the source: the unit ends at once with the update-failed error,
\* which its waiter receives as it receives the error of a failed fetch.
C14_BackoffSuppressesFetch ==
    [][\A w \in Workers :
          StartsUpdate(w) /\ now < backoff_end_time => FailsUnasked(w)]_vars

\* a query has failed with the error of a unit that was suppressed
C14_Witness ==
    \E q \in Queries :
        /\ queries[q].pc = "failed"
        /\ queries[q].err = "update_failed"
        /\ units[queries[q].unit].state = "done_err"
        /\ units[queries[q].unit].err = queries[q].err
        /\ ~units[queries[q].unit].asked
        /\ now < backoff_end_time

\* update thread w ends a fetch that succeeded / that failed in this step
FetchSucceeds(w) ==
    workers[w].pc = "read" /\ workers'[w].pc = "idle"

FetchFails(w) ==
    workers[w].pc = "catch" /\ workers'[w].pc = "idle"

\* C15: a fetch that succeeds leaves error_count 0, last_exception empty
\* and backoff_end_time cleared; a fetch that fails leaves error_count one
\* more than before, last_exception set and backoff_end_time at the time
\* the update began plus a duration for the new error_count; no other step
\* changes any of the three, so error_count counts the failed fetches since
\* the last success.
C15_BackoffTracksOutcomes ==
    [][/\ \A w \in Workers :
             /\ FetchSucceeds(w) =>
                   /\ error_count' = 0
                   /\ last_exception' = "none"
                   /\ backoff_end_time' = 0
             /\ FetchFails(w) =>
                   /\ error_count' = error_count + 1
                   /\ last_exception' = "source_error"
                   /\ (backoff_end_time' - workers[w].wnow)
                         \in calculateDurationWithBackoff(error_count')
       /\ (\A w \in Workers : ~FetchSucceeds(w) /\ ~FetchFails(w))
             => backoff' = backoff]_vars

\* two fetches have failed in a row
C15_Witness ==
    /\ error_count = 2
    /\ last_exception = "source_error"
    /\ backoff_end_time > now

\* C16: in a run of failures the window of a failure (backoff_end_time
\* minus the now of the failed update) is at least as long as any window
\* the failure before it can have got, and never longer than the clamp.
C16_BackoffMonotone ==
    [][\A w \in Workers :
          FetchFails(w) =>
             LET window == backoff_end_time' - workers[w].wnow
             IN  /\ window <= BackoffClamp
                 /\ error_count >= 1 =>
                       \A before \in calculateDurationWithBackoff(error_count) :
                          before <= window]_vars

\* the third failure in a row has set a window of the length of the clamp
C16_Witness ==
    /\ error_count = 3
    /\ \E w \in Workers :
          /\ workers[w].pc = "idle"
          /\ backoff_end_time = now + BackoffClamp

\* C17: the step in which a unit is suppressed by the backoff changes
\* neither error_count, last_exception, backoff_end_time nor the storage.
C17_SuppressedChangesNothing ==
    [][\A w \in Workers :
          StartsUpdate(w) /\ workers'[w].pc = "idle" =>
             /\ backoff' = backoff
             /\ storage' = storage]_vars

\* a unit was suppressed while the storage holds a slot and a failure is on
\* record
C17_Witness ==
    /\ error_count >= 1
    /\ getSize(storage) >= 1
    /\ \E u \in UnitIds :
          /\ units[u].state = "done_err"
          /\ units[u].runs = 1
          /\ ~units[u].asked

\* C18: a call that ends with the update-failed error leaves the storage as
\* it was before the update of the call: the unit the call failed on has
\* changed no slot.
C18_ErrorLeavesStorage ==
    \A q \in Queries :
        queries[q].pc = "failed" /\ queries[q].err = "update_failed" =>
            ~units[queries[q].unit].changed

\* update thread w is between the first read of the stream and its end
Fetching(w) ==
    workers[w].pc = "read"

\* a query thread looks the keys up in the storage in this step
LookupStep ==
    \E q \in Queries :
        queries[q].pc = "idle" /\ queries'[q].pc = "fetched"

C20_NoLockWhileReading ==
    \A w \in Workers :
        Fetching(w) /\ workers[w].stream # << >> => rw_lock # w

\* the values the source can hold for key k
SourceValues(k) == {SourceValue(k, t) : t \in 0..MaxTime}

\* a call has returned value v of the expired key k and left the refresh to
\* the update thread
ReturnedStale(k, v) ==
    \E q \in Queries :
        /\ queries[q].pc = "returned"
        /\ queries[q].branch = "async"
        /\ queries[q].keys = <<k>>
        /\ queries[q].out = <<v>>

\* the slot of key k holds a value other than v and is fresh
Refreshed(k, v) ==
    /\ storage[k].present
    /\ storage[k].value \in SourceValues(k) \ {v}
    /\ Classify(storage[k], now) = "fresh"

\* C21: with allow_read_expired_keys, after a call returned the value of an
\* expired key, the slot of the key is eventually overwritten with the value
\* the source holds then and is fresh, provided the source answers and the
\* update thread is scheduled fairly.
C21_AsyncRefreshProgress ==
    \A v \in SourceValues(1) : ReturnedStale(1, v) ~> Refreshed(1, v)

\* the update thread has drained the stream of a unit whose call has
\* returned (the unit of an async update, since a sync update waits for its
\* unit), and the slot is fresh with the value it read
C21_Witness ==
    \E w \in Workers :
        /\ workers[w].pc = "read"
        /\ workers[w].stream = << >>
        /\ units[workers[w].unit].owner = 0
        /\ units[workers[w].unit].fill
        /\ units[workers[w].unit].changed
        /\ allow_read_expired_keys
        /\ Classify(storage[1], now) = "fresh"
        /\ storage[1].value = units[workers[w].unit].got[1]
        /\ storage[1].value # SourceValue(1, 1)

\* query q has entered a call / has got the result or the error of its call
Entered(q) == queries[q].pc = "called"
Ended(q) == queries[q].pc \in {"returned", "failed"}
LookedUp(q) == queries[q].pc = "fetched"

\* C22: every call of getColumns or hasKeys eventually returns with a result
\* or an error, whatever the update thread and the source do.
C22_EveryCallReturns ==
    \A q \in Queries : Entered(q) ~> Ended(q)

\* the part of C22 that lies past the lookup: a call that has looked the
\* keys up returns, since the push and the wait are bounded by timeouts
CallReturnsAfterLookup ==
    \A q \in Queries : LookedUp(q) ~> Ended(q)

\* the unit of update thread w was pushed by a sync update: a call waits
\* for it
SyncUnit(w) ==
    \E q \in Queries :
        queries[q].pc = "waiting" /\ queries[q].unit = workers[w].unit

\* the lookup of a call finds a key without a slot in this step
LooksUpAbsent(q) ==
    /\ queries[q].pc # "fetched"
    /\ queries'[q].pc = "fetched"
    /\ \E i \in DOMAIN key_columns : ~storage[key_columns[i]].present

TakesSnapshot(q) ==
    queries[q].pc = "idle" /\ queries'[q].pc = "stream"

SourceCalls ==
    {u \in UnitIds : units[u].state = "running" /\ units[u].asked}

\* the update threads that are inside update(), from loadIds to the end
InUpdate == {w \in Workers : workers[w].pc \in {"load", "lock", "read", "catch"}}

C26_UpdateIndexOnlyRequestedKeys ==
    \A u \in UnitIds :
        \A k \in DOMAIN units[u].index :
            k \in Range(units[u].keys) /\ Has(units[u].got, k)

\* C27: a hasKeys call that finds no key absent and some key expired while
\* expired keys may not be read pushes an update unit and waits for it, and
\* its answer is true for an expired key the source still holds.
C27_HasKeysSyncOnExpired ==
    \A q \in Queries :
        /\ Answered(q) /\ ~IsGetColumns(q)
        /\ ~SomeAbsent(q) /\ SomeExpired(q)
        /\ ~allow_read_expired_keys
        => /\ queries[q].unit # 0
           /\ \A i \in Rows(q) :
                 ClassAt(q, i) = "expired" /\ queries[q].keys[i] \in SourceKeys
                    => queries[q].out[i]

\* client thread q holds the write lock of the storage
HoldsLock(q) == rw_lock = 0 - q

\* client thread q is past its lookup and may block in the push or the wait
PushingOrWaiting(q) == queries[q].pc \in {"fetched", "waiting"}

\* C28: a client thread holds the storage lock during its lookup only, so it
\* holds none while it pushes or waits, and the update thread that needs the
\* lock for the unit the client waits for finds it free.
C28_NoLockWhileWaiting ==
    /\ \A q \in Queries : HoldsLock(q) => queries[q].pc = "locked"
    /\ \A q \in Queries : PushingOrWaiting(q) => ~HoldsLock(q)
    /\ \A q \in Queries, w \in Workers :
          /\ queries[q].pc = "waiting"
          /\ workers[w].unit = queries[q].unit
          /\ workers[w].pc = "lock"
          => \A p \in Queries : HoldsLock(p) => ~PushingOrWaiting(p)

\* a client thread waits for its unit while the update thread is about to
\* take the lock, which is free
C28_Witness ==
    \E q \in Queries, w \in Workers :
        /\ queries[q].pc = "waiting"
        /\ workers[w].unit = queries[q].unit
        /\ workers[w].pc = "lock"
        /\ rw_lock = 0


\* the ancestor that was requested for row r of a search
RequestedAncestor(ancestor_ids, r) ==
    IF ancestor_ids.constant THEN ancestor_ids.value ELSE ancestor_ids.ids[r]

\* entry j of the parents array of isInImpl is one at which its row has to
\* stop: null, the requested ancestor of the row, or a child the row was
\* expanded with before
RowMeetsEnd(c, j) ==
    LET r == ActiveRows(c.out)[j]
    IN  \/ c.parents[j] = null_value
        \/ c.parents[j] = RequestedAncestor(c.ancestor_ids, r)
        \/ c.parents[j] \in c.seen[r]

\* a step that is one iteration of the loop of isInImpl
IsInImplStep(q) ==
    /\ queries[q].pc = "isInImpl"
    /\ queries[q].i < DBMS_HIERARCHICAL_DICTIONARY_MAX_DEPTH
    /\ queries'[q].pc \in {"isInImpl", "isInDone"}

\* a step of isInConstantVector that goes on to a further parent
IsInConstantVectorExpands(q) ==
    /\ queries[q].pc = "isInConstantVector"
    /\ queries'[q].pc = "isInConstantVector"

\* a search is running or has ended for query q
InSearch(q) ==
    queries[q].pc \in {"isInImpl", "isInConstantVector", "isInSearch", "isInDone"}

\* C29, first half: a search calls toParent at most MAX_DEPTH times.
ToParentCallsBounded ==
    \A q \in Queries :
        InSearch(q) => queries[q].calls <= DBMS_HIERARCHICAL_DICTIONARY_MAX_DEPTH

\* C29, isInImpl: an iteration decides every row whose parent is null.
IsInImplStopsAtNull ==
    [][\A q \in Queries : IsInImplStep(q) =>
          \A j \in DOMAIN queries[q].parents :
              queries[q].parents[j] = null_value =>
                  queries'[q].out[ActiveRows(queries[q].out)[j]] # NotCalculated]_vars

\* C29, isInImpl: an iteration decides every row whose parent is the ancestor
\* requested for that row.
IsInImplStopsAtAncestor ==
    [][\A q \in Queries : IsInImplStep(q) =>
          \A j \in DOMAIN queries[q].parents :
              queries[q].parents[j] =
                    RequestedAncestor(queries[q].ancestor_ids, ActiveRows(queries[q].out)[j]) =>
                  queries'[q].out[ActiveRows(queries[q].out)[j]] # NotCalculated]_vars

\* C29, isInImpl: an iteration decides every row whose parent is a child the
\* row was expanded with before.
IsInImplStopsAtCycle ==
    [][\A q \in Queries : IsInImplStep(q) =>
          \A j \in DOMAIN queries[q].parents :
              queries[q].parents[j] \in queries[q].seen[ActiveRows(queries[q].out)[j]] =>
                  queries'[q].out[ActiveRows(queries[q].out)[j]] # NotCalculated]_vars

\* C29, isInConstantVector: the loop does not go on to a parent it has
\* already collected.
IsInConstantVectorStopsAtCycle ==
    [][\A q \in Queries : IsInConstantVectorExpands(q) =>
          toParent(<<queries[q].child>>)[1] \notin Range(queries[q].ancestors)]_vars

\* C29: an ancestor-of search (isInVectorVector, isInVectorConstant,
\* isInConstantVector) calls toParent at most MAX_DEPTH times, and it stops
\* expanding a row as soon as the row meets a null parent, the requested
\* ancestor, or a child that was seen before, whatever the length of the
\* cycle.
C29_AncestorSearchStops ==
    /\ [](\A q \in Queries :
            InSearch(q) => queries[q].calls <= DBMS_HIERARCHICAL_DICTIONARY_MAX_DEPTH)
    /\ [][\A q \in Queries :
            /\ IsInImplStep(q) =>
                  \A j \in DOMAIN queries[q].parents :
                      RowMeetsEnd(queries[q], j) =>
                          queries'[q].out[ActiveRows(queries[q].out)[j]] # NotCalculated
            /\ IsInConstantVectorExpands(q) =>
                  toParent(<<queries[q].child>>)[1] \notin Range(queries[q].ancestors)]_vars


\* query q has asked the factory for a dictionary and has its answer
Constructing(q) == queries[q].pc \in {"created", "rejected"}

\* the configuration breaks one of the requirements of a cache
Violating(cfg) ==
    \/ cfg.size_in_cells = 0
    \/ cfg.max_update_queue_size.set /\ cfg.max_update_queue_size.value = 0
    \/ cfg.max_threads_for_updates.set /\ cfg.max_threads_for_updates.value = 0
    \/ /\ cfg.update_queue_push_timeout_milliseconds.set
       /\ cfg.update_queue_push_timeout_milliseconds.value < 10
    \/ cfg.require_nonempty.set /\ cfg.require_nonempty.value
    \/ cfg.range_min
    \/ cfg.range_max
    \/ ~cfg.supportsSelectiveLoad

\* C30: every constructed cache has size_in_cells > 0, max_update_queue_size
\* > 0, max_threads_for_updates > 0, update_queue_push_timeout_milliseconds
\* >= 10, no require_nonempty, no range_min or range_max and a source with
\* selective load; a configuration that breaks one of these is rejected and
\* yields no instance.
C30_ConstructedInstancesValid ==
    \A q \in Queries :
        /\ queries[q].pc = "created" =>
              /\ queries[q].instance.size_in_cells > 0
              /\ queries[q].instance.max_update_queue_size > 0
              /\ queries[q].instance.max_threads_for_updates > 0
              /\ queries[q].instance.update_queue_push_timeout_milliseconds >= 10
              /\ ~getOption(queries[q].configuration.require_nonempty, FALSE)
              /\ ~queries[q].configuration.range_min
              /\ ~queries[q].configuration.range_max
              /\ queries[q].configuration.supportsSelectiveLoad
        /\ (Constructing(q) /\ Violating(queries[q].configuration)) =>
              /\ queries[q].pc = "rejected"
              /\ queries[q].err # "none"
              /\ queries[q].instance = NoInstance

\* a cache was constructed with the push timeout at its floor, its other
\* queue options left to their defaults
C30_Witness ==
    /\ queries[1].pc = "created"
    /\ queries[1].configuration.update_queue_push_timeout_milliseconds.set
    /\ queries[1].configuration.update_queue_push_timeout_milliseconds.value = 10
    /\ queries[1].instance.max_threads_for_updates = DefaultMaxThreadsForUpdates
    /\ queries[1].instance.max_update_queue_size = DefaultMaxUpdateQueueSize

\* a configuration with a push timeout below the floor was rejected
C30_Rejected ==
    /\ queries[1].pc = "rejected"
    /\ queries[1].configuration.update_queue_push_timeout_milliseconds.set
    /\ queries[1].configuration.update_queue_push_timeout_milliseconds.value = 9
    /\ queries[1].err = "BAD_ARGUMENTS"

\* the keys on the parent chain of key k, k included, n links at most
RECURSIVE ParentChain(_, _)
ParentChain(k, n) ==
    IF k = null_value \/ n = 0 THEN {}
    ELSE {k} \cup ParentChain(storage[k].value, n - 1)

\* the parent chain of key k ends at a null parent within n links
RECURSIVE ChainEnds(_, _)
ChainEnds(k, n) ==
    \/ k = null_value
    \/ n > 0 /\ ChainEnds(storage[k].value, n - 1)

\* the hierarchy has no cycle and its depth is below the limit
ShallowHierarchy ==
    \A k \in Keys : ChainEnds(k, DBMS_HIERARCHICAL_DICTIONARY_MAX_DEPTH - 1)

\* isInVectorVector or isInVectorConstant has returned to query q
IsInImplReturned(q) ==
    /\ queries[q].pc = "isInDone"
    /\ "child_ids" \in DOMAIN queries[q]

\* the answer of row r: the requested ancestor is the child or lies on its
\* parent chain
IsAncestor(c, r) ==
    RequestedAncestor(c.ancestor_ids, r)
        \in ParentChain(c.child_ids[r], DBMS_HIERARCHICAL_DICTIONARY_MAX_DEPTH)

\* C31, first half: over a shallow hierarchy no row is returned as not
\* calculated.
IsInImplCalculatesEveryRow ==
    \A q \in Queries :
        (IsInImplReturned(q) /\ ShallowHierarchy) =>
            \A r \in DOMAIN queries[q].out : queries[q].out[r] \in {0, 1}

\* C31 for single-row searches
IsInImplAnswersSingleRow ==
    \A q \in Queries :
        (IsInImplReturned(q) /\ ShallowHierarchy /\ Len(queries[q].out) = 1) =>
            queries[q].out[1] = IF IsAncestor(queries[q], 1) THEN 1 ELSE 0

\* C31: isInVectorVector and isInVectorConstant over a hierarchy of depth
\* below MAX_DEPTH return 0 or 1 in every row, and 1 exactly in the rows
\* whose own requested ancestor is the child or lies on its parent chain,
\* whatever happened to the other rows.
C31_IsInAnswersPerRow ==
    \A q \in Queries :
        (IsInImplReturned(q) /\ ShallowHierarchy) =>
            \A r \in DOMAIN queries[q].out :
                queries[q].out[r] = IF IsAncestor(queries[q], r) THEN 1 ELSE 0

\* client thread q reads the storage in this step: a lookup, the size, or
\* the snapshot of the cached keys
StorageRead(q) ==
    \/ queries[q].pc \in {"idle", "stream"} /\ queries'[q].pc = "fetched"
    \/ queries[q].pc = "idle" /\ queries'[q].pc = "returned"
    \/ TakesSnapshot(q)

\* C32 for lookups and introspection: they do not run while an update
\* thread holds the write lock, and the storage changes under that lock only.
LockedStorageAccess ==
    /\ [][\A q \in Queries :
            (StorageRead(q) /\ ~TakesSnapshot(q)) => rw_lock \notin Workers]_vars
    /\ [][storage' # storage => rw_lock \in Workers /\ rw_lock' = rw_lock]_vars

\* a size was read while an update was under way but not inside its lock
LockedStorageAccess_Witness ==
    /\ queries[1].pc = "returned"
    /\ queries[1].op = "getElementCount"
    /\ workers[1].pc = "lock"

\* C32: every access to the storage (lookup, insert, size, the snapshot of
\* the cached keys taken by getBlockInputStream) is made under rw_lock: no
\* client thread reads the storage while an update thread holds the write
\* lock for its inserts, and the storage changes under the write lock only.
C32_StorageAccessUnderLock ==
    /\ [][\A q \in Queries : StorageRead(q) => rw_lock \notin Workers]_vars
    /\ [][storage' # storage => rw_lock \in Workers /\ rw_lock' = rw_lock]_vars

\* update thread w calls loadIds / loadKeys in this step
CallsSource(w) ==
    workers[w].pc = "load" /\ workers'[w].pc \in {"lock", "catch"}

\* C33: no call of the source is started inside a backoff window: whenever
\* an update thread calls loadIds / loadKeys, backoff_end_time is not later
\* than the current time, whatever the other update threads did since this
\* thread checked it.
C33_NoSourceCallInBackoff ==
    [][\A w \in Workers : CallsSource(w) => backoff_end_time <= now]_vars

\* the current time lies inside a backoff window
InBackoff == now < backoff_end_time

\* query q leaves its branch decision in this step
LeavesBranch(q) ==
    queries[q].pc = "fetched" /\ queries'[q].pc # "fetched"

\* the call of query q returns in this step, without error, the values the
\* lookup found in the storage
ReturnsStored(q) ==
    /\ queries'[q].pc = "returned"
    /\ queries'[q].err = "none"
    /\ IsGetColumns(q) =>
          \A i \in Rows(q) : queries'[q].out[i] = ValueAt(q, i)

\* the push of query q times out on a full queue in this step
PushTimesOut(q) ==
    /\ Len(queue) >= max_update_queue_size
    /\ queries'[q].pc = "failed"
    /\ queries'[q].err = "queue_full"

\* update thread w suppresses a background unit in this step
SuppressesBackground(w) ==
    /\ workers[w].pc = "update"
    /\ workers'[w] = IdleWorker
    /\ units[workers[w].unit].owner = 0

\* C34: a backoff window affects only the queries that need a sync update.
\* While now < backoff_end_time a query whose keys are all fresh returns its
\* values from the storage without error; so does a query in the async
\* branch, whose push can fail on a full queue only, as outside a window;
\* and the update-failed error of the suppressed background unit reaches no
\* query.
C34_BackoffSparesStorageReads ==
    /\ [][\A q \in Queries :
            (InBackoff /\ LeavesBranch(q) /\ queries[q].branch = "all_hit")
                => ReturnsStored(q)]_vars
    /\ [][\A q \in Queries :
            (InBackoff /\ LeavesBranch(q) /\ queries[q].branch = "async")
                => ReturnsStored(q) \/ PushTimesOut(q)]_vars
    /\ [][\A w \in Workers :
            SuppressesBackground(w) =>
                /\ queries' = queries
                /\ units'[workers[w].unit] = NoUnit]_vars
    /\ [](\A q \in Queries :
            (queries[q].pc = "failed" /\ queries[q].err = "update_failed")
                => queries[q].branch = "sync")

\* inside a backoff window a query has returned the expired value of its key
\* and has left in the queue the unit that the update thread will suppress
C34_Witness ==
    \E q \in Queries :
        /\ InBackoff
        /\ error_count > 0
        /\ queries[q].pc = "returned"
        /\ queries[q].branch = "async"
        /\ queries[q].err = "none"
        /\ queries[q].out = <<ValueAt(q, 1)>>
        /\ queue = <<queries[q].unit>>
        /\ units[queries[q].unit].state = "pending"
        /\ \A w \in Workers : workers[w].pc = "idle"

\* query q is past its lookup in the storage
PastLookup(q) == queries[q].pc \in {"fetched", "waiting", "returned", "failed"}

\* C35, the rows: a call that has returned has one row per input key.
OneRowPerInputKey ==
    \A q \in Queries :
        Answered(q) => Len(queries[q].out) = Len(queries[q].keys)

\* C35: the branch decision does not depend on keys being repeated: when
\* every input key is fresh the absent count is 0, the call takes the
\* all-hit return, no update unit is pushed, so the source is not called, and
\* the output has one row per input key.
C35_RepeatedKeysAllHit ==
    \A q \in Queries :
        (PastLookup(q) /\ AllFresh(q)) =>
            /\ notFoundKeysSize(queries[q].keys, queries[q].res) = 0
            /\ queries[q].branch = "all_hit"
            /\ queries[q].unit = 0
            /\ Answered(q) => Len(queries[q].out) = Len(queries[q].keys)
====
